---- MODULE Spec2Model ----
(***************************************************************************)
(* A model of the voice-to-command pipeline of mc-voice-minigame:          *)
(*   - MinecraftRCON (src/src/minecraft_rcon.py): connection flag,         *)
(*     cooldown map, execute_command with reconnect-and-retry, the slab    *)
(*     decomposition of a chunk replace and the player fan-out;            *)
(*   - MinecraftBot._on_transcript (src/src/bot.py) and the BlockDetector  *)
(*     it consults (src/src/block_detector.py);                            *)
(*   - AudioQueueSink.write / VoiceClient.get_audio_chunk                  *)
(*     (src/src/discord_client.py).                                        *)
(* Text is a sequence of one-character strings; a remote response is a     *)
(* sequence of tokens.  Every remote interaction (a connect, a command     *)
(* send) has an outcome chosen by the environment.                         *)
(***************************************************************************)
EXTENDS Integers, Sequences, FiniteSets, TLC

VARIABLES
    connected,          \* MinecraftRCON.connected
    last_command_time,  \* MinecraftRCON.last_command_time: key -> time, NoTime if absent
    now,                \* the wall clock read by datetime.now(), in seconds
    pc,                 \* position of the running RCON operation
    call,               \* the running operation: arguments, loop indices, results
    rlog,               \* remote interactions of the running operation, in issue order
    fill_reply,         \* the string this server answers to a successful fill
    online,             \* the players online on the server, in the order it lists them
    audio_queue,        \* VoiceClient.audio_queue: the frames queued, oldest first
    is_capturing,       \* VoiceClient.is_capturing[0]
    wpc,                \* position of the running AudioQueueSink.write
    wcall,              \* the running or last write: its frame, what it found, its outcome
    chunk,              \* what the last get_audio_chunk returned
    nwrites,            \* write calls made so far
    ngets,              \* get_audio_chunk calls made so far
    transcribing,       \* MinecraftBot.transcribing[guild]
    lpc,                \* position of the _process_audio_loop task of the guild
    cancel_req,         \* task.cancel() has been called on that task
    spc,                \* position of the stop_transcribe handler
    model,              \* TranscriptionService.model is not None
    is_transcribing,    \* TranscriptionService.is_transcribing
    audio_buffer,       \* len(TranscriptionService.audio_buffer), in bytes
    model_lock,         \* holder of TranscriptionService._model_lock
    loaders,            \* _load_model jobs given to the executor, in submission order
    nloaded,            \* times _load_model has assigned self.model
    consecutive_errors, \* consecutive_errors of the running loop
    since_ok,           \* outcomes of the loop's iterations since the last processed frame
    slog,               \* teardown events of the session, in order
    niters,             \* loop iterations made so far
    nsessions,          \* start_transcribe calls made so far
    ntasks,             \* _transcribe_chunk tasks created and not yet run
    pcm_of,             \* data.pcm of each frame delivered to the sink, by timestamp
    buffer,             \* TranscriptionService.audio_buffer: its bytes, as runs of frames
    accepted,           \* the audio_data appended to the buffer, in arrival order
    emitted,            \* the chunks cut off the buffer, in emission order
    tasks,              \* the _transcribe_chunk tasks in flight, in creation order
    tlog,               \* the _transcribe_chunk tasks that have returned, in that order
    last_iter,          \* the last pass of the loop body: what it got and did
    custom_voice_clients,   \* MinecraftBot.custom_voice_clients: guild -> its VoiceClient
    client_capturing,       \* VoiceClient.is_capturing[0] of every client created, by client
    guild_transcribing,     \* MinecraftBot.transcribing.get(guild, False)
    audio_processing_tasks, \* MinecraftBot.audio_processing_tasks: guild -> its loop task
    loop_tasks,             \* the _process_audio_loop tasks created, in creation order
    handler,                \* the slash command of each guild that is awaiting
    nframes                 \* frames the loops have been handed so far

rconVars == <<connected, last_command_time, now, pc, call, rlog, fill_reply, online>>

queueVars == <<audio_queue, is_capturing, wpc, wcall, chunk, nwrites, ngets>>

sessVars == <<transcribing, lpc, cancel_req, spc, model, is_transcribing, audio_buffer, model_lock, loaders, nloaded, consecutive_errors, since_ok, slog, niters, nsessions, ntasks>>

pipeVars == <<pcm_of, buffer, accepted, emitted, tasks, tlog, last_iter>>

guildVars == <<custom_voice_clients, client_capturing, guild_transcribing, audio_processing_tasks, loop_tasks, handler, nframes>>

vars == <<rconVars, queueVars, sessVars, pipeVars, guildVars>>

(***************************************************************************)
(* Bounds of the model.                                                    *)
(***************************************************************************)
MaxTime == 7

\* Calls of AudioQueueSink.write in one behavior.
MaxWrites == 3

\* Calls of get_audio_chunk in one behavior.
MaxGets == 3

\* Iterations of the audio processing loop in one behavior.
MaxIters == 7

\* Calls of start_transcribe in one behavior.
MaxSessions == 2

(***************************************************************************)
(* Program constants.                                                      *)
(***************************************************************************)
FILL_LIMIT_BLOCKS == 32768

CHUNK_RADIUS == 8

FILL_SEGMENT_HEIGHT == 128

COOLDOWN_SECONDS == 5

\* Config.DEFAULT_RADIUS and Config.MAX_RADIUS as config.py sets them when the
\* environment does not.
DEFAULT_RADIUS == 3

MAX_RADIUS == 10

\* asyncio.Queue(maxsize=1500)
AUDIO_QUEUE_MAXSIZE == 1500

\* max_errors of _process_audio_loop
MAX_ERRORS == 5

DISCORD_PCM_RATE == 48000

\* getattr(Config, 'WHISPER_CHUNK_SECONDS', 3)
WHISPER_CHUNK_SECONDS == 3

\* ThreadPoolExecutor(max_workers=2)
EXECUTOR_WORKERS == 2

DefaultWorldMinY == -64

DefaultWorldMaxY == 320

(***************************************************************************)
(* Values.                                                                 *)
(***************************************************************************)
Min(a, b) == IF a <= b THEN a ELSE b

\* Python's None for an Optional[int] user id; `if user_id` also treats 0 so.
NoUser == 0

UserIds == {1}

NoTime == -1

\* A response of execute_command: None, or a string (a sequence of tokens).
NoneResp == [none |-> TRUE, text |-> <<>>]

Str(t) == [none |-> FALSE, text |-> t]

\* A player name as get_online_players returns it: a stripped piece of the
\* response.
PlayerNames == {<<"Alice">>, <<"Bob">>}

\* The players the server may have online.
OnlineOptions == { <<>>, <<"Alice">>, <<"Alice", "Bob">> }

Header == "There are N of a max of 20 players online"

\* "There are 2 of a max of 20 players online: player1, player2"
RECURSIVE JoinNames(_)
JoinNames(names) ==
    IF names = <<>> THEN <<>>
    ELSE IF Len(names) = 1 THEN <<Head(names)>>
    ELSE <<Head(names), ",", " ">> \o JoinNames(Tail(names))

FormatList(names) ==
    IF names = <<>> THEN <<Header, ":">>
    ELSE <<Header, ":", " ">> \o JoinNames(names)

\* " player1 , player2 ": the names with blanks around them.
RECURSIVE PaddedNames(_)
PaddedNames(names) ==
    IF names = <<>> THEN <<" ">>
    ELSE IF Len(names) = 1 THEN <<" ", Head(names), " ">>
    ELSE <<" ", Head(names), " ", ",">> \o PaddedNames(Tail(names))

\* "[12:00] There are 2 of a max of 20 players online: player1 , player2 ":
\* the answer of a server that stamps its lines and pads the names.
StampedList(names) ==
    <<"[12", ":", "00]", " ", Header, ":">> \o PaddedNames(names)

\* What the server may answer to `list`: the players online, or, from a server
\* that does not know the command, a text without a colon or nothing.
ListResponses ==
    { <<>>, <<"Unknown command">>, FormatList(online), StampedList(online) }

\* What a server answers to a fill (an empty string on some servers).
FillResponses == { <<>>, <<"Successfully filled blocks">> }

(***************************************************************************)
(* Commands.                                                               *)
(***************************************************************************)
NoCmd == [verb |-> "none"]

ListCommand == [verb |-> "list"]

\* f"execute as {player} at @s run fill ~-{R} {y_start} ~-{R} ~{R} {y_end} ~{R}
\*   {replacement_block} replace {target_block}"
\* The slab command with the two block ids in each other's place.
ChunkFillCommandSwapped(player, y_start, y_end, replacement_block, target_block) ==
    [verb |-> "fill", as |-> player,
     x1 |-> -CHUNK_RADIUS, y1 |-> y_start, z1 |-> -CHUNK_RADIUS,
     x2 |-> CHUNK_RADIUS,  y2 |-> y_end,   z2 |-> CHUNK_RADIUS,
     yrel |-> FALSE,
     block |-> target_block, mode |-> "replace", filter |-> replacement_block]

ChunkFillCommand(player, y_start, y_end, replacement_block, target_block) ==
    [verb |-> "fill", as |-> player,
     x1 |-> -CHUNK_RADIUS, y1 |-> y_start, z1 |-> -CHUNK_RADIUS,
     x2 |-> CHUNK_RADIUS,  y2 |-> y_end,   z2 |-> CHUNK_RADIUS,
     yrel |-> FALSE,
     block |-> replacement_block, mode |-> "replace", filter |-> target_block]

\* What this server may answer to a command it runs.
Responses(command) ==
    IF command.verb = "list" THEN ListResponses ELSE {fill_reply}

\* The outcome of connection.command(command): it raises, or returns a string.
SendOutcomes(command) ==
    {[raise |-> TRUE, text |-> <<>>]}
        \cup {[raise |-> FALSE, text |-> t] : t \in Responses(command)}

\* The outcome of MCRcon(...).connect(): it raises (False) or not (True).
ConnectOutcomes == BOOLEAN

\* A remote interaction: a connect made on behalf of `command` (NoCmd when
\* connect() is called on its own), or a send of `command` with the text the
\* server returned (ok) or an exception (not ok).
ConnectEv(command, ok) ==
    [ev |-> "connect", cmd |-> command, ok |-> ok, text |-> <<>>]

SendEv(command, ok, text) ==
    [ev |-> "send", cmd |-> command, ok |-> ok, text |-> text]

(***************************************************************************)
(* MinecraftRCON: cooldown.                                                *)
(***************************************************************************)
CooldownKey(user_id) ==
    IF user_id # NoUser THEN <<"user", user_id>> ELSE <<"global", 0>>

Keys == {CooldownKey(u) : u \in UserIds \cup {NoUser}}

\* _check_cooldown with a strict comparison.
CheckCooldownStrict(user_id) ==
    LET last_time == last_command_time[CooldownKey(user_id)]
    IN  IF last_time = NoTime THEN TRUE
        ELSE (now - last_time) > COOLDOWN_SECONDS

\* _check_cooldown: True when the key may run.
CheckCooldown(user_id) ==
    LET last_time == last_command_time[CooldownKey(user_id)]
    IN  IF last_time = NoTime THEN TRUE
        ELSE (now - last_time) >= COOLDOWN_SECONDS

\* No bookkeeping: the map as it is.
UpdateCooldownOff(user_id) == last_command_time

\* _update_cooldown: the map after recording `now` under the key.
UpdateCooldown(user_id) ==
    [last_command_time EXCEPT ![CooldownKey(user_id)] = now]

(***************************************************************************)
(* MinecraftRCON.execute_command.  Each remote interaction has an outcome  *)
(* chosen by the environment, so the call yields a set of possible         *)
(* results; a result carries the new connection flag and cooldown map, the *)
(* response, whether an exception leaves the call, and the remote          *)
(* interactions made, in order.                                            *)
(***************************************************************************)
ExecResult(conn, lct, response, exc, events) ==
    [connected |-> conn, lct |-> lct, response |-> response,
     exc |-> exc, events |-> events]

\* A connect() whose caller goes on whatever came of it.
ConnectResultProceed(command, ok) ==
    [connected |-> ok, returned |-> TRUE, event |-> ConnectEv(command, ok)]

\* connect() (lines 40-72): it never raises; the flag becomes its outcome.
ConnectResult(command, ok) ==
    [connected |-> ok, returned |-> ok, event |-> ConnectEv(command, ok)]

\* The retry (lines 133-138): the command is sent again, its exception caught.
RetrySend(command, user_id, events) ==
    { IF ~s2.raise
      THEN ExecResult(TRUE, UpdateCooldown(user_id), Str(s2.text), FALSE,
                      events \o <<SendEv(command, TRUE, s2.text)>>)
      ELSE ExecResult(TRUE, last_command_time, NoneResp, FALSE,
                      events \o <<SendEv(command, FALSE, <<>>)>>)
      : s2 \in SendOutcomes(command) }

\* The handler giving up at once: no reconnect, no retry.
OnSendErrorGiveUp(command, user_id, events) ==
    {ExecResult(FALSE, last_command_time, NoneResp, FALSE, events)}

\* The handler of the first send's exception (lines 128-139).
OnSendError(command, user_id, events) ==
    UNION { LET c == ConnectResult(command, ok)
            IN  IF c.returned
                THEN RetrySend(command, user_id, events \o <<c.event>>)
                ELSE {ExecResult(c.connected, last_command_time, NoneResp, FALSE,
                                 events \o <<c.event>>)}
            : ok \in ConnectOutcomes }

\* The try block (lines 123-127) and its handler.
SendCommand(command, user_id, events) ==
    UNION { IF ~s1.raise
            THEN {ExecResult(TRUE, UpdateCooldown(user_id), Str(s1.text), FALSE,
                             events \o <<SendEv(command, TRUE, s1.text)>>)}
            ELSE OnSendError(command, user_id,
                             events \o <<SendEv(command, FALSE, <<>>)>>)
            : s1 \in SendOutcomes(command) }

\* A gate that records the time of the request it rejects.
CooldownGateStamping(command, user_id, bypass_cooldown, events) ==
    IF ~bypass_cooldown /\ ~CheckCooldown(user_id)
    THEN {ExecResult(TRUE, UpdateCooldown(user_id), NoneResp, FALSE, events)}
    ELSE SendCommand(command, user_id, events)

\* The cooldown gate (lines 118-121), reached on a connected client.
CooldownGate(command, user_id, bypass_cooldown, events) ==
    IF ~bypass_cooldown /\ ~CheckCooldown(user_id)
    THEN {ExecResult(TRUE, last_command_time, NoneResp, FALSE, events)}
    ELSE SendCommand(command, user_id, events)

\* execute_command (lines 102-139): every way the call can go.
ExecuteCommand(command, user_id, bypass_cooldown) ==
    IF ~connected
    THEN UNION { LET c == ConnectResult(command, ok)
                 IN  IF ~c.returned
                     THEN {ExecResult(c.connected, last_command_time, NoneResp,
                                      FALSE, <<c.event>>)}
                     ELSE CooldownGate(command, user_id, bypass_cooldown,
                                       <<c.event>>)
                 : ok \in ConnectOutcomes }
    ELSE CooldownGate(command, user_id, bypass_cooldown, <<>>)

(***************************************************************************)
(* Slab decomposition of replace_blocks_in_chunk_around_player.            *)
(***************************************************************************)
HBlocks == CHUNK_RADIUS * 2 + 1

\* The segment height of a 16x16 chunk (FILL_SEGMENT_HEIGHT) used for 17x17.
SegmentHeight16 == FILL_SEGMENT_HEIGHT

SegmentHeight == FILL_LIMIT_BLOCKS \div (HBlocks * HBlocks)

HeightSpan(world_min_y, world_max_y) == world_max_y - world_min_y + 1

NumSegments(world_min_y, world_max_y) ==
    (HeightSpan(world_min_y, world_max_y) + SegmentHeight - 1) \div SegmentHeight

YStart(world_min_y, i) == world_min_y + i * SegmentHeight

\* The slab's top without the clip to world_max_y.
YEndUnclipped(world_min_y, world_max_y, i) ==
    world_min_y + (i + 1) * SegmentHeight - 1

YEnd(world_min_y, world_max_y, i) ==
    Min(world_min_y + (i + 1) * SegmentHeight - 1, world_max_y)

(***************************************************************************)
(* MinecraftRCON.get_online_players: parsing of the `list` response.       *)
(***************************************************************************)
IsSpace(tok) == tok \in {" ", "\t", "\n"}

RECURSIVE LStrip(_)
LStrip(t) == IF t # <<>> /\ IsSpace(Head(t)) THEN LStrip(Tail(t)) ELSE t

RECURSIVE RStrip(_)
RStrip(t) ==
    IF t # <<>> /\ IsSpace(t[Len(t)]) THEN RStrip(SubSeq(t, 1, Len(t) - 1)) ELSE t

\* The text as it is, blanks kept.
StripOff(t) == t

\* str.strip()
Strip(t) == RStrip(LStrip(t))

\* str.split(sep): the pieces between the separators, at least one piece.
RECURSIVE SplitFrom(_, _, _)
SplitFrom(t, sep, piece) ==
    IF t = <<>> THEN <<piece>>
    ELSE IF Head(t) = sep THEN <<piece>> \o SplitFrom(Tail(t), sep, <<>>)
    ELSE SplitFrom(Tail(t), sep, Append(piece, Head(t)))

Split(t, sep) == SplitFrom(t, sep, <<>>)

\* A player name is the stripped piece of the response that names it.
ParsePlayers(response) ==
    IF response.none \/ response.text = <<>> THEN <<>>
    ELSE IF \E i \in 1..Len(response.text) : response.text[i] = ":"
    THEN LET parts == Split(response.text, ":")
             players_str == Strip(parts[Len(parts)])
         IN  IF players_str # <<>>
             THEN LET pieces == Split(players_str, ",")
                  IN  [k \in 1..Len(pieces) |-> Strip(pieces[k])]
             ELSE <<>>
    ELSE <<>>

(***************************************************************************)
(* The running operation.                                                  *)
(***************************************************************************)
EmptyMap == [p \in {} |-> FALSE]

Put(m, k, v) == [x \in DOMAIN m \cup {k} |-> IF x = k THEN v ELSE m[x]]

Forget(m, k) == [x \in DOMAIN m \ {k} |-> m[x]]

IdleCall ==
    [kind |-> "none", user_id |-> NoUser, bypass |-> FALSE, command |-> NoCmd,
     target |-> <<>>, replacement |-> <<>>, min_y |-> 0, max_y |-> 0,
     players |-> <<>>, pi |-> 0, si |-> 0, results |-> EmptyMap,
     response |-> NoneResp, exc |-> FALSE, text |-> <<>>, gate |-> "none",
     at |-> 0, was_connected |-> FALSE, last_before |-> NoTime,
     detected |-> FALSE, matched_word |-> <<>>, radius |-> 0,
     max_radius |-> 0, returned |-> FALSE]

Ready == pc \in {"idle", "done"}

\* A call that starts now: the time, the connection flag and the timestamp of
\* its cooldown key as the call finds them are recorded with it.
NewCall(kind, user_id) ==
    [IdleCall EXCEPT !.kind = kind, !.user_id = user_id, !.at = now,
                     !.was_connected = connected,
                     !.last_before = last_command_time[CooldownKey(user_id)]]

\* The map a fan-out returns when no player needs any command.
AllTrue(players) ==
    [p \in {players[k] : k \in 1..Len(players)} |-> TRUE]

(***************************************************************************)
(* Operations of MinecraftRCON.                                            *)
(***************************************************************************)
\* connect(), called by get_rcon_client, on_ready and on_resume.
Connect ==
    /\ Ready
    /\ ~connected
    /\ \E ok \in ConnectOutcomes :
          /\ connected' = ConnectResult(NoCmd, ok).connected
          /\ rlog' = <<ConnectResult(NoCmd, ok).event>>
    /\ pc' = "done"
    /\ call' = NewCall("connect", NoUser)
    /\ UNCHANGED <<last_command_time, now, fill_reply, online>>
    /\ UNCHANGED queueVars
    /\ UNCHANGED sessVars
    /\ UNCHANGED pipeVars
    /\ UNCHANGED guildVars

\* Players join or leave the server, between two operations of the client;
\* what was recorded of the last operation is dropped.
PlayersChange ==
    /\ Ready
    /\ online' \in OnlineOptions \ {online}
    /\ pc' = "idle"
    /\ call' = IdleCall
    /\ rlog' = <<>>
    /\ UNCHANGED <<connected, last_command_time, now, fill_reply>>
    /\ UNCHANGED queueVars
    /\ UNCHANGED sessVars
    /\ UNCHANGED pipeVars
    /\ UNCHANGED guildVars

\* The clock advances.
Tick ==
    /\ Ready
    /\ now < MaxTime
    /\ now' = now + 1
    /\ UNCHANGED <<connected, last_command_time, pc, call, rlog, fill_reply, online>>
    /\ UNCHANGED queueVars
    /\ UNCHANGED sessVars
    /\ UNCHANGED pipeVars
    /\ UNCHANGED guildVars

\* One call of execute_command(command, user_id, bypass_cooldown) by a caller
\* outside the client (test_connection, a slash command).
ExecuteCommandCall(command, user_id, bypass_cooldown) ==
    /\ Ready
    /\ \E r \in ExecuteCommand(command, user_id, bypass_cooldown) :
              /\ connected' = r.connected
              /\ last_command_time' = r.lct
              /\ rlog' = r.events
              /\ call' = [NewCall("execute", user_id) EXCEPT
                              !.command = command,
                              !.bypass = bypass_cooldown,
                              !.response = r.response, !.exc = r.exc]
    /\ pc' = "done"
    /\ UNCHANGED <<now, fill_reply, online>>
    /\ UNCHANGED queueVars
    /\ UNCHANGED sessVars
    /\ UNCHANGED pipeVars
    /\ UNCHANGED guildVars

\* replace_blocks_in_chunk_around_all_players is entered: get_online_players
\* is the next thing it does.
StartChunkAll(kind, target_block, replacement_block, world_min_y, world_max_y) ==
    /\ pc' = "list"
    /\ rlog' = <<>>
    /\ call' = [NewCall(kind, NoUser) EXCEPT
                    !.target = target_block, !.replacement = replacement_block,
                    !.min_y = world_min_y, !.max_y = world_max_y]

ReplaceChunkAllCall(target_block, replacement_block, world_min_y, world_max_y) ==
    /\ Ready
    /\ StartChunkAll("chunk_all", target_block, replacement_block,
                     world_min_y, world_max_y)
    /\ UNCHANGED <<connected, last_command_time, now, fill_reply, online>>
    /\ UNCHANGED queueVars
    /\ UNCHANGED sessVars
    /\ UNCHANGED pipeVars
    /\ UNCHANGED guildVars

\* replace_blocks_in_chunk_around_player is entered by an outside caller.
ReplaceChunkPlayerCall(player, target_block, replacement_block, min_y, max_y) ==
    /\ Ready
    /\ LET c == [NewCall("chunk_player", NoUser) EXCEPT
                    !.target = target_block, !.replacement = replacement_block,
                    !.min_y = min_y, !.max_y = max_y,
                    !.players = <<player>>, !.pi = 1]
       IN  IF NumSegments(min_y, max_y) <= 0
           THEN /\ pc' = "done"
                /\ call' = [c EXCEPT !.results = AllTrue(<<player>>), !.pi = 2]
           ELSE /\ pc' = "fill"
                /\ call' = c
    /\ rlog' = <<>>
    /\ UNCHANGED <<connected, last_command_time, now, fill_reply, online>>
    /\ UNCHANGED queueVars
    /\ UNCHANGED sessVars
    /\ UNCHANGED pipeVars
    /\ UNCHANGED guildVars

\* get_online_players inside the fan-out: `list`, bypassing the cooldown.
ListStep ==
    /\ pc = "list"
    /\ \E r \in ExecuteCommand(ListCommand, NoUser, TRUE) :
          LET players == ParsePlayers(r.response)
              c == [call EXCEPT !.players = players, !.exc = r.exc]
          IN  /\ connected' = r.connected
              /\ last_command_time' = r.lct
              /\ rlog' = rlog \o r.events
              /\ IF r.exc
                 THEN pc' = "done" /\ call' = c
                 ELSE IF players = <<>> \/ NumSegments(call.min_y, call.max_y) <= 0
                 THEN /\ pc' = "done"
                      /\ call' = [c EXCEPT !.results = AllTrue(players),
                                           !.pi = Len(players) + 1]
                 ELSE /\ pc' = "fill"
                      /\ call' = [c EXCEPT !.pi = 1, !.si = 0]
    /\ UNCHANGED <<now, fill_reply, online>>
    /\ UNCHANGED queueVars
    /\ UNCHANGED sessVars
    /\ UNCHANGED pipeVars
    /\ UNCHANGED guildVars

\* The fan-out stopping at the first player that fails.
AfterSlabAbortAll(c, failed) ==
    LET player == c.players[c.pi]
        playerDone == failed \/ c.si + 1 >= NumSegments(c.min_y, c.max_y)
        lastPlayer == failed \/ c.pi = Len(c.players)
    IN  [pc |-> IF playerDone /\ lastPlayer THEN "done" ELSE "fill",
         call |-> [c EXCEPT
                     !.results = IF playerDone THEN Put(@, player, ~failed) ELSE @,
                     !.pi = IF playerDone THEN @ + 1 ELSE @,
                     !.si = IF playerDone THEN 0 ELSE @ + 1]]

\* What follows one slab's execute_command in the loop of
\* replace_blocks_in_chunk_around_player (lines 268-282) and in the dict
\* comprehension of the fan-out (lines 310-315): on None the player's loop
\* returns False, after the last slab it returns True, and the fan-out goes on
\* with the next player.
AfterSlab(c, failed) ==
    LET player == c.players[c.pi]
        playerDone == failed \/ c.si + 1 >= NumSegments(c.min_y, c.max_y)
        lastPlayer == c.pi = Len(c.players)
    IN  [pc |-> IF playerDone /\ lastPlayer THEN "done" ELSE "fill",
         call |-> [c EXCEPT
                     !.results = IF playerDone THEN Put(@, player, ~failed) ELSE @,
                     !.pi = IF playerDone THEN @ + 1 ELSE @,
                     !.si = IF playerDone THEN 0 ELSE @ + 1]]

\* The command of slab i addressed to the first player of the list.
SlabCommandFirstPlayer(c) ==
    ChunkFillCommand(c.players[1],
                     YStart(c.min_y, c.si),
                     YEnd(c.min_y, c.max_y, c.si),
                     c.replacement, c.target)

\* The command of slab i of the running call, for its current player
\* (lines 260-267).
SlabCommand(c) ==
    ChunkFillCommand(c.players[c.pi],
                     YStart(c.min_y, c.si),
                     YEnd(c.min_y, c.max_y, c.si),
                     c.replacement, c.target)

\* One iteration of the slab loop (lines 259-276) for the current player.
FillStep ==
    /\ pc = "fill"
    /\ \E r \in ExecuteCommand(SlabCommand(call), NoUser, TRUE) :
          LET nxt == AfterSlab(call, r.response.none)
          IN  /\ connected' = r.connected
              /\ last_command_time' = r.lct
              /\ rlog' = rlog \o r.events
              /\ IF r.exc
                 THEN /\ pc' = "done"
                      /\ call' = [call EXCEPT !.exc = TRUE]
                 ELSE /\ pc' = nxt.pc
                      /\ call' = nxt.call
    /\ UNCHANGED <<now, fill_reply, online>>
    /\ UNCHANGED queueVars
    /\ UNCHANGED sessVars
    /\ UNCHANGED pipeVars
    /\ UNCHANGED guildVars

(***************************************************************************)
(* Specifications.                                                         *)
(***************************************************************************)
\* No task holds the lock.
NoHolder == 0

\* TranscriptionService.__init__ and MinecraftBot.__init__: no model, no
\* session, no task.
SessFresh ==
    /\ transcribing = FALSE
    /\ lpc = "none"
    /\ cancel_req = FALSE
    /\ spc = "idle"
    /\ model = FALSE
    /\ is_transcribing = FALSE
    /\ audio_buffer = 0
    /\ model_lock = NoHolder
    /\ loaders = <<>>
    /\ nloaded = 0
    /\ consecutive_errors = 0
    /\ since_ok = <<>>
    /\ slog = <<>>
    /\ niters = 0
    /\ nsessions = 0
    /\ ntasks = 0

\* No frame of this write, no chunk returned.
NoFrame == 0

\* The record of a pass of the loop body that has not happened.
NoIter ==
    [frame |-> NoFrame, pcm |-> "none", outcome |-> "none", errs_before |-> 0,
     errs_after |-> 0, buffer_before |-> 0, pending |-> 0]

\* The guilds the bot serves.
Guilds == {1, 2}

\* The guild has no VoiceClient.
NoClient == 0

\* The guild has no loop task on record.
NoTask == 0

\* No slash command of the guild is awaiting.
NoHandler == [op |-> "idle", task |-> NoTask]

\* MinecraftBot.__init__ (bot.py lines 53-58): no client, no flag, no task.
GuildsFresh ==
    /\ custom_voice_clients = [g \in Guilds |-> NoClient]
    /\ client_capturing = <<>>
    /\ guild_transcribing = [g \in Guilds |-> FALSE]
    /\ audio_processing_tasks = [g \in Guilds |-> NoTask]
    /\ loop_tasks = <<>>
    /\ handler = [g \in Guilds |-> NoHandler]
    /\ nframes = 0

\* No frame delivered, nothing buffered, no task.
PipeFresh ==
    /\ pcm_of = EmptyMap
    /\ buffer = <<>>
    /\ accepted = <<>>
    /\ emitted = <<>>
    /\ tasks = <<>>
    /\ tlog = <<>>
    /\ last_iter = NoIter

\* The record of a write that has not happened.
NoWrite == [frame |-> NoFrame, pcm |-> "none", capturing |-> FALSE,
            before |-> <<>>, pops |-> 0, empty_seen |-> FALSE, res |-> "none"]

\* VoiceClient.__init__: an empty queue, not capturing.
QueueFresh ==
    /\ audio_queue = <<>>
    /\ is_capturing = FALSE
    /\ wpc = "idle"
    /\ wcall = NoWrite
    /\ chunk = NoFrame
    /\ nwrites = 0
    /\ ngets = 0

RconInit ==
    /\ QueueFresh
    /\ SessFresh
    /\ PipeFresh
    /\ GuildsFresh
    /\ connected = FALSE
    /\ last_command_time = [k \in Keys |-> NoTime]
    /\ now = 0
    /\ pc = "idle"
    /\ call = IdleCall
    /\ rlog = <<>>

\* Vertical spans a caller may pass: (world_min_y, world_max_y).
WorldSpans ==
    { <<DefaultWorldMinY, DefaultWorldMaxY>>,
      <<0, 0>>, <<0, 112>>, <<0, 113>>, <<-64, 161>>, <<0, 255>>,
      <<0, -1>> }

\* The spans the fan-out is called with in SpecChunk: up to three slabs.
FanOutSpans == WorldSpans \ { <<DefaultWorldMinY, DefaultWorldMaxY>> }

BlockIds == {<<"minecraft:", "stone">>, <<"minecraft:", "grass_block">>}

Air == <<"minecraft:", "air">>

ExecNext ==
    \/ Connect
    \/ Tick
    \/ \E u \in UserIds \cup {NoUser}, b \in BOOLEAN :
          ExecuteCommandCall(ListCommand, u, b)

ExecInit == RconInit /\ fill_reply = <<>> /\ online = <<"Alice">>

\* The client under direct execute_command calls, with the clock running.
Spec == ExecInit /\ [][ExecNext]_vars

ChunkNext ==
    \/ Connect
    \/ PlayersChange
    \/ \E t \in BlockIds, w \in FanOutSpans :
          ReplaceChunkAllCall(t, Air, w[1], w[2])
    \/ \E p \in PlayerNames, t \in BlockIds, w \in WorldSpans :
          ReplaceChunkPlayerCall(p, t, Air, w[1], w[2])
    \/ ListStep
    \/ FillStep

\* The client under chunk replaces, for one player and for all players.
ChunkInit == RconInit /\ fill_reply \in FillResponses /\ online = <<>>

SpecChunk == ChunkInit /\ [][ChunkNext]_vars

(***************************************************************************)
(* Text: a Python str is a sequence of one-character strings.              *)
(***************************************************************************)
UpperLetters ==
    <<"A", "B", "C", "D", "E", "F", "G", "H", "I", "J", "K", "L", "M", "N",
    "O", "P", "Q", "R", "S", "T", "U", "V", "W", "X", "Y", "Z">>

LowerLetters ==
    <<"a", "b", "c", "d", "e", "f", "g", "h", "i", "j", "k", "l", "m", "n",
    "o", "p", "q", "r", "s", "t", "u", "v", "w", "x", "y", "z">>

Digits == {"0", "1", "2", "3", "4", "5", "6", "7", "8", "9"}

\* str.lower() on one character.
LowerChar(ch) ==
    IF \E i \in 1..Len(UpperLetters) : UpperLetters[i] = ch
    THEN LowerLetters[CHOOSE i \in 1..Len(UpperLetters) : UpperLetters[i] = ch]
    ELSE ch

\* \w of the re module.
IsWordChar(ch) ==
    \/ \E i \in 1..Len(LowerLetters) : LowerLetters[i] = ch \/ UpperLetters[i] = ch
    \/ ch \in Digits
    \/ ch = "_"

\* \s of the re module, and what str.split() and str.strip() take for blank.
IsWhitespace(ch) == ch \in {" ", "\t", "\n"}

Lower(text) == [i \in 1..Len(text) |-> LowerChar(text[i])]

\* re.sub(r'[^\w\s]', '', text)
RemovePunctuation(text) ==
    SelectSeq(text, LAMBDA ch : IsWordChar(ch) \/ IsWhitespace(ch))

\* str.split(): the maximal runs of non-blank characters.
RECURSIVE SplitWords(_, _)
SplitWords(text, word) ==
    IF text = <<>> THEN (IF word = <<>> THEN <<>> ELSE <<word>>)
    ELSE IF IsWhitespace(Head(text))
    THEN (IF word = <<>> THEN <<>> ELSE <<word>>) \o SplitWords(Tail(text), <<>>)
    ELSE SplitWords(Tail(text), Append(word, Head(text)))

\* ' '.join(words)
RECURSIVE JoinWords(_)
JoinWords(words) ==
    IF words = <<>> THEN <<>>
    ELSE IF Len(words) = 1 THEN Head(words)
    ELSE Head(words) \o <<" ">> \o JoinWords(Tail(words))

\* BlockDetector.normalize_text
NormalizeText(text) ==
    JoinWords(SplitWords(RemovePunctuation(Lower(text)), <<>>))

\* `needle in haystack` on strings.
IsSubstring(needle, haystack) ==
    \E s \in 0..(Len(haystack) - Len(needle)) :
        SubSeq(haystack, s + 1, s + Len(needle)) = needle

\* \b at the position after the first `pos` characters of text.
WordBoundary(text, pos) ==
    LET before == pos >= 1 /\ IsWordChar(text[pos])
        after == pos < Len(text) /\ IsWordChar(text[pos + 1])
    IN  before # after

\* re.search(re.escape(word), text): without the \b guards.
SubstringSearch(word, text) == IsSubstring(word, text)

\* re.search(r'\b' + re.escape(word) + r'\b', text)
WholeWordSearch(word, text) ==
    \E s \in 0..(Len(text) - Len(word)) :
        /\ SubSeq(text, s + 1, s + Len(word)) = word
        /\ WordBoundary(text, s)
        /\ WordBoundary(text, s + Len(word))

\* not text or not text.strip()
IsBlank(text) == \A i \in 1..Len(text) : IsWhitespace(text[i])

(***************************************************************************)
(* BlockDetector: the vocabulary and detect_block.                         *)
(***************************************************************************)
\* A value of block_words.json: a string, or a list of strings.
StrValue(id) == [type |-> "str", str |-> id, list |-> <<>>]

ListValue(ids) == [type |-> "list", str |-> <<>>, list |-> ids]

W_sand == <<"s", "a", "n", "d">>

W_stone == <<"s", "t", "o", "n", "e">>

W_grass == <<"g", "r", "a", "s", "s">>

W_diamond == <<"d", "i", "a", "m", "o", "n", "d">>

W_diamond_block == <<"d", "i", "a", "m", "o", "n", "d", " ", "b", "l", "o", "c", "k">>

W_ore == <<"o", "r", "e">>

W_mud == <<"m", "u", "d">>

W_junk == <<"j", "u", "n", "k">>


\* BlockDetector.block_words, in iteration order.
BlockWords ==
    << [word |-> W_sand, block_id |-> StrValue(<<"minecraft:", "sand">>)],
       [word |-> W_stone, block_id |-> StrValue(<<"minecraft:", "stone">>)],
       [word |-> W_grass, block_id |-> StrValue(<<"minecraft:", "grass_block">>)],
       [word |-> W_diamond, block_id |-> StrValue(<<"minecraft:", "diamond">>)],
       [word |-> W_diamond_block,
        block_id |-> StrValue(<<"minecraft:", "diamond_block">>)],
       [word |-> W_ore,
        block_id |-> ListValue(<< <<"minecraft:", "iron_ore">>,
                                  <<"minecraft:", "gold_ore">> >>)],
       [word |-> W_mud, block_id |-> StrValue(<<"mud">>)],
       [word |-> W_junk, block_id |-> ListValue(<<>>)] >>

\* sorted(items, key=lambda x: len(x[0]), reverse=True): a stable sort, so
\* phrases of equal length keep their iteration order.
RECURSIVE InsertByLen(_, _)
InsertByLen(item, sorted) ==
    IF sorted = <<>> THEN <<item>>
    ELSE IF Len(Head(sorted).word) >= Len(item.word)
    THEN <<Head(sorted)>> \o InsertByLen(item, Tail(sorted))
    ELSE <<item>> \o sorted

\* The items in iteration order, unsorted.
SortOff(items) == items

RECURSIVE SortByLenDesc(_)
SortByLenDesc(items) ==
    IF items = <<>> THEN <<>>
    ELSE InsertByLen(items[Len(items)],
                     SortByLenDesc(SubSeq(items, 1, Len(items) - 1)))

(***************************************************************************)
(* BlockDetector._extract_radius: four patterns over the normalized text,  *)
(* each found by re.search at its leftmost position.                       *)
(***************************************************************************)
DigitChars == <<"0", "1", "2", "3", "4", "5", "6", "7", "8", "9">>

\* int() on one decimal digit.
DigitValue(ch) == (CHOOSE d \in 1..Len(DigitChars) : DigitChars[d] = ch) - 1

\* int(match.group(1)) on a run of decimal digits.
RECURSIVE ParseInt(_)
ParseInt(ds) ==
    IF ds = <<>> THEN 0
    ELSE ParseInt(SubSeq(ds, 1, Len(ds) - 1)) * 10 + DigitValue(ds[Len(ds)])

\* The literal lit stands after the first `pos` characters of text.
LiteralAt(text, pos, lit) ==
    /\ pos + Len(lit) <= Len(text)
    /\ SubSeq(text, pos + 1, pos + Len(lit)) = lit

\* \d or \s on one character.
InClass(ch, kind) == IF kind = "digits" THEN ch \in Digits ELSE IsWhitespace(ch)

\* Where the run of characters of one class that starts after the first `pos`
\* characters ends: what a greedy \d* or \s* takes.
RunEnd(text, pos, kind) ==
    CHOOSE e \in pos..Len(text) :
        /\ \A i \in (pos + 1)..e : InClass(text[i], kind)
        /\ e = Len(text) \/ ~InClass(text[e + 1], kind)

L_in == <<"i", "n">>

L_radius == <<"r", "a", "d", "i", "u", "s">>

L_block == <<"b", "l", "o", "c", "k">>

L_s == <<"s">>

\* The items of a pattern: a literal, an optional literal, \s+ and (\d+).
Lit(chars) == [kind |-> "lit", chars |-> chars]

Opt(chars) == [kind |-> "opt", chars |-> chars]

Spaces == [kind |-> "spaces", chars |-> <<>>]

DigitsGroup == [kind |-> "digits", chars |-> <<>>]

\* The patterns in the order of the list (lines 131-136).
RadiusPatterns ==
    << <<Lit(L_in), Spaces, DigitsGroup, Spaces, Lit(L_block), Opt(L_s)>>,
       <<Lit(L_radius), Spaces, DigitsGroup>>,
       <<DigitsGroup, Spaces, Lit(L_block), Opt(L_s)>>,
       <<DigitsGroup>> >>

NoMatch == [matched |-> FALSE, group |-> <<>>]

\* The items matched one after the other from position pos on; group is
\* what (\d+) has captured.  A run is followed by a character outside its
\* class or by a literal, so the greedy run is the only one that can match.
RECURSIVE MatchFrom(_, _, _, _)
MatchFrom(items, text, pos, group) ==
    IF items = <<>> THEN [matched |-> TRUE, group |-> group]
    ELSE IF Head(items).kind = "lit"
    THEN (IF LiteralAt(text, pos, Head(items).chars)
          THEN MatchFrom(Tail(items), text, pos + Len(Head(items).chars), group)
          ELSE NoMatch)
    ELSE IF Head(items).kind = "opt"
    THEN MatchFrom(Tail(items), text,
                   IF LiteralAt(text, pos, Head(items).chars)
                   THEN pos + Len(Head(items).chars) ELSE pos,
                   group)
    ELSE IF RunEnd(text, pos, Head(items).kind) = pos THEN NoMatch
    ELSE MatchFrom(Tail(items), text, RunEnd(text, pos, Head(items).kind),
                   IF Head(items).kind = "digits"
                   THEN SubSeq(text, pos + 1, RunEnd(text, pos, Head(items).kind))
                   ELSE group)

\* re.search(pattern, text): the match at the leftmost position that has one.
RECURSIVE Search(_, _, _)
Search(pattern, text, s) ==
    IF s > Len(text) THEN NoMatch
    ELSE IF MatchFrom(pattern, text, s, <<>>).matched
    THEN MatchFrom(pattern, text, s, <<>>)
    ELSE Search(pattern, text, s + 1)

\* for pattern in patterns: the match of the first pattern that matches.
RECURSIVE FirstOf(_, _)
FirstOf(patterns, text) ==
    IF patterns = <<>> THEN NoMatch
    ELSE IF Search(Head(patterns), text, 0).matched
    THEN Search(Head(patterns), text, 0)
    ELSE FirstOf(Tail(patterns), text)

FirstMatch(text) == FirstOf(RadiusPatterns, text)

NoRadius == [none |-> TRUE, value |-> 0]

\* Without the clamp.
ClampToMaxOff(radius, max_radius) == radius

\* min(radius, Config.MAX_RADIUS)
ClampToMax(radius, max_radius) == Min(radius, max_radius)

\* BlockDetector._extract_radius(text): None when no pattern matches.
ExtractRadius(text) ==
    LET m == FirstMatch(text)
    IN  IF ~m.matched THEN NoRadius
        ELSE [none |-> FALSE, value |-> ClampToMax(ParseInt(m.group), MAX_RADIUS)]

\* `radius or Config.DEFAULT_RADIUS`: None and 0 are both false.
RadiusOrDefault(radius) ==
    IF radius.none \/ radius.value = 0 THEN DEFAULT_RADIUS ELSE radius.value

NoBlock ==
    [found |-> FALSE, block_id |-> StrValue(<<>>), matched_word |-> <<>>, radius |-> 0]

\* BlockDetector.detect_block: the first phrase, longest first, found in the
\* normalized text as a whole word.
DetectBlock(text) ==
    LET normalized == NormalizeText(text)
        sorted_words == SortByLenDesc(BlockWords)
        hits == {k \in 1..Len(sorted_words) :
                    WholeWordSearch(NormalizeText(sorted_words[k].word), normalized)}
    IN  IF hits = {} THEN NoBlock
        ELSE LET k == CHOOSE k \in hits : \A j \in hits : k <= j
             IN  [found |-> TRUE, block_id |-> sorted_words[k].block_id,
                  matched_word |-> sorted_words[k].word,
                  radius |-> RadiusOrDefault(ExtractRadius(normalized))]

(***************************************************************************)
(* MinecraftBot._on_transcript.                                            *)
(***************************************************************************)
\* The phrase that must be in the normalized transcript (line 133).
TriggerPhrase ==
    <<"c", "l", "e", "a", "r", " ", "c", "h", "u", "n", "k">>

\* "Please CLEAR  chunk, Grass now!"
T_clear_grass ==
    <<"P", "l", "e", "a", "s", "e", " ", "C", "L", "E", "A", "R", " ", " ",
    "c", "h", "u", "n", "k", ",", " ", "G", "r", "a", "s", "s", " ", "n",
    "o", "w", "!">>

\* "clear chunk sandstone"
T_sandstone ==
    <<"c", "l", "e", "a", "r", " ", "c", "h", "u", "n", "k", " ", "s", "a",
    "n", "d", "s", "t", "o", "n", "e">>

\* "there is grass here"
T_grass ==
    <<"t", "h", "e", "r", "e", " ", "i", "s", " ", "g", "r", "a", "s", "s",
    " ", "h", "e", "r", "e">>

\* "clear chunk diamond block"
T_diamond_block ==
    <<"c", "l", "e", "a", "r", " ", "c", "h", "u", "n", "k", " ", "d", "i",
    "a", "m", "o", "n", "d", " ", "b", "l", "o", "c", "k">>

\* blanks only
T_blank ==
    <<" ", "\t", " ">>

\* the empty string
T_empty ==
    <<>>

\* "clear chunk ore"
T_ore ==
    <<"c", "l", "e", "a", "r", " ", "c", "h", "u", "n", "k", " ", "o", "r",
    "e">>

\* "clear chunk mud"
T_mud ==
    <<"c", "l", "e", "a", "r", " ", "c", "h", "u", "n", "k", " ", "m", "u",
    "d">>

\* "clear chunk junk"
T_junk ==
    <<"c", "l", "e", "a", "r", " ", "c", "h", "u", "n", "k", " ", "j", "u",
    "n", "k">>

\* "clear the chunk of stone"
T_split ==
    <<"c", "l", "e", "a", "r", " ", "t", "h", "e", " ", "c", "h", "u", "n",
    "k", " ", "o", "f", " ", "s", "t", "o", "n", "e">>

\* "clear chunk please"
T_no_block ==
    <<"c", "l", "e", "a", "r", " ", "c", "h", "u", "n", "k", " ", "p", "l",
    "e", "a", "s", "e">>


\* What the voice recognition may hand to the transcript callback.
Transcripts ==
    { T_clear_grass, T_sandstone, T_grass, T_diamond_block, T_blank, T_empty,
      T_ore, T_mud, T_junk, T_split, T_no_block }

\* block_id resolution (lines 139-141): the first element of a list, None for
\* an empty one.
ResolveBlockId(value) ==
    IF value.type = "list"
    THEN (IF value.list # <<>>
          THEN [none |-> FALSE, id |-> value.list[1]]
          ELSE [none |-> TRUE, id |-> <<>>])
    ELSE [none |-> FALSE, id |-> value.str]

\* isinstance(block_id, str) and block_id.startswith('minecraft:')
ValidBlockId(r) == ~r.none /\ r.id # <<>> /\ r.id[1] = "minecraft:"

\* The gate without the "clear chunk" test.
TranscriptGateNoTrigger(text) ==
    IF IsBlank(text) THEN [act |-> FALSE, why |-> "blank", block_id |-> <<>>]
    ELSE LET block_info == DetectBlock(text)
             r == ResolveBlockId(block_info.block_id)
         IN  IF ~block_info.found
             THEN [act |-> FALSE, why |-> "no_block", block_id |-> <<>>]
             ELSE IF ~ValidBlockId(r)
             THEN [act |-> FALSE, why |-> "invalid_block_id", block_id |-> <<>>]
             ELSE [act |-> TRUE, why |-> "act", block_id |-> r.id]

\* The checks of _on_transcript before it touches the RCON client
\* (lines 120-144): whether it acts, and on which block.
TranscriptGate(text) ==
    IF IsBlank(text) THEN [act |-> FALSE, why |-> "blank", block_id |-> <<>>]
    ELSE LET block_info == DetectBlock(text)
             r == ResolveBlockId(block_info.block_id)
         IN  IF ~block_info.found
             THEN [act |-> FALSE, why |-> "no_block", block_id |-> <<>>]
             ELSE IF ~IsSubstring(TriggerPhrase, NormalizeText(text))
             THEN [act |-> FALSE, why |-> "no_trigger", block_id |-> <<>>]
             ELSE IF ~ValidBlockId(r)
             THEN [act |-> FALSE, why |-> "invalid_block_id", block_id |-> <<>>]
             ELSE [act |-> TRUE, why |-> "act", block_id |-> r.id]

\* TranscriptGate of every transcript, computed once.
GateOf == [t \in Transcripts |-> TranscriptGate(t)]

\* detect_block of every transcript, computed once.
DetectOf == [t \in Transcripts |-> DetectBlock(t)]

\* normalize_text of every transcript, computed once.
NormalizedOf == [t \in Transcripts |-> NormalizeText(t)]

\* The arguments with the two blocks exchanged.
ClearChunkArgsSwapped(block_id) == [target |-> Air, replacement |-> block_id]

\* The arguments of the replace (lines 155-158): the detected block is the
\* target, air replaces it.
ClearChunkArgs(block_id) == [target |-> block_id, replacement |-> Air]

\* _on_transcript(text, user_id): the checks, the connect of a disconnected
\* client (lines 146-152), and the entry into the fan-out with the default
\* vertical span.
OnTranscriptBody(text, user_id) ==
    /\ Ready
    /\ LET g == GateOf[text]
           args == ClearChunkArgs(g.block_id)
           c == [NewCall("transcript", user_id) EXCEPT
                    !.text = text, !.gate = g.why,
                    !.min_y = DefaultWorldMinY, !.max_y = DefaultWorldMaxY]
       IN  IF ~g.act
           THEN /\ pc' = "done"
                /\ call' = c
                /\ rlog' = <<>>
                /\ UNCHANGED connected
           ELSE \E ok \in (IF connected THEN {TRUE} ELSE ConnectOutcomes) :
                  /\ connected' =
                        IF connected THEN TRUE ELSE ConnectResult(NoCmd, ok).connected
                  /\ rlog' =
                        IF connected THEN <<>> ELSE <<ConnectResult(NoCmd, ok).event>>
                  /\ IF ok
                     THEN /\ pc' = "list"
                          /\ call' = [c EXCEPT !.target = args.target,
                                               !.replacement = args.replacement]
                     ELSE /\ pc' = "done"
                          /\ call' = [c EXCEPT !.gate = "connect_failed"]
    /\ UNCHANGED <<last_command_time, now, fill_reply, online>>

\* The callback called by an outside caller.
OnTranscript(text, user_id) ==
    /\ OnTranscriptBody(text, user_id)
    /\ UNCHANGED queueVars
    /\ UNCHANGED sessVars
    /\ UNCHANGED pipeVars
    /\ UNCHANGED guildVars

BotInit == RconInit /\ fill_reply = <<>> /\ online = <<>>

BotNext ==
    \/ Connect
    \/ PlayersChange
    \/ \E t \in Transcripts, u \in UserIds : OnTranscript(t, u)
    \/ ListStep
    \/ FillStep

\* The bot's transcript callback driving the RCON client.
SpecBot == BotInit /\ [][BotNext]_vars

(***************************************************************************)
(* The audio queue: asyncio.Queue(maxsize=1500) between                    *)
(* AudioQueueSink.write, called by the voice receive thread, and           *)
(* get_audio_chunk, awaited by the processing loop.  A frame is named by   *)
(* its packet timestamp.  A write is a sequence of queue method calls; the *)
(* consumer may run between two of them.                                   *)
(***************************************************************************)
\* Queue.full() with no size limit.
FullNever(q) == FALSE

\* Queue.full(): maxsize > 0 and qsize() >= maxsize.
Full(q) == AUDIO_QUEUE_MAXSIZE > 0 /\ Len(q) >= AUDIO_QUEUE_MAXSIZE

\* Queue.put_nowait(item): raises QueueFull on a full queue.
PutNowait(q, item) ==
    IF Full(q) THEN [queue |-> q, exc |-> "QueueFull"]
    ELSE [queue |-> Append(q, item), exc |-> "none"]

\* Queue.get_nowait(): raises QueueEmpty on an empty queue.
GetNowait(q) ==
    IF q = <<>> THEN [queue |-> q, item |-> NoFrame, exc |-> "QueueEmpty"]
    ELSE [queue |-> Tail(q), item |-> Head(q), exc |-> "none"]

\* A handler that removes the newest queued frame.
DropNewest(q) ==
    IF q = <<>> THEN [queue |-> q, item |-> NoFrame, exc |-> "QueueEmpty"]
    ELSE [queue |-> SubSeq(q, 1, Len(q) - 1), item |-> q[Len(q)], exc |-> "none"]

\* The get_nowait() of the QueueFull handler of write (line 74).
DropOldest(q) == GetNowait(q)

\* data.pcm of a delivered frame: None, b'' or samples.
PcmKinds == {"none", "empty", "data"}

\* not data.pcm or len(data.pcm) == 0
InvalidPcm(pcm) == pcm \in {"none", "empty"}

\* The timestamp of the next frame delivered: later than any queued one.
NextFrame == AUDIO_QUEUE_MAXSIZE + 2 + nwrites

\* start_capturing(): nothing when already capturing; otherwise the flag is
\* set, and cleared again when the client is not connected to a voice channel
\* or listen() raises.
StartCapturing ==
    /\ ~is_capturing
    /\ is_capturing' \in BOOLEAN
    /\ UNCHANGED <<audio_queue, wpc, wcall, chunk, nwrites, ngets>>
    /\ UNCHANGED rconVars
    /\ UNCHANGED sessVars
    /\ UNCHANGED pipeVars
    /\ UNCHANGED guildVars

\* stop_capturing()
StopCapturing ==
    /\ is_capturing
    /\ is_capturing' = FALSE
    /\ UNCHANGED <<audio_queue, wpc, wcall, chunk, nwrites, ngets>>
    /\ UNCHANGED rconVars
    /\ UNCHANGED sessVars
    /\ UNCHANGED pipeVars
    /\ UNCHANGED guildVars

\* write(user, data) up to its first put_nowait (lines 47-71): returns at
\* once when not capturing or when the PCM is missing or empty; otherwise
\* the frame is put, or QueueFull takes the call into its handler.  The PCM
\* is the 'audio' entry of the dict queued for the frame (lines 59-64).
Write(pcm) ==
    /\ wpc = "idle"
    /\ nwrites < MaxWrites
    /\ nwrites' = nwrites + 1
    /\ LET w == [NoWrite EXCEPT !.frame = NextFrame, !.pcm = pcm,
                                !.capturing = is_capturing,
                                !.before = audio_queue]
           r == PutNowait(audio_queue, NextFrame)
       IN  IF ~is_capturing
           THEN /\ wcall' = [w EXCEPT !.res = "not_capturing"]
                /\ UNCHANGED <<audio_queue, wpc>>
           ELSE IF InvalidPcm(pcm)
           THEN /\ wcall' = [w EXCEPT !.res = "invalid"]
                /\ UNCHANGED <<audio_queue, wpc>>
           ELSE IF r.exc = "none"
           THEN /\ audio_queue' = r.queue
                /\ wcall' = [w EXCEPT !.res = "enqueued"]
                /\ UNCHANGED wpc
           ELSE /\ wpc' = "drop"
                /\ wcall' = w
                /\ UNCHANGED audio_queue
    /\ pcm_of' = IF is_capturing /\ ~InvalidPcm(pcm)
                  THEN Put(pcm_of, NextFrame, pcm)
                  ELSE pcm_of
    /\ UNCHANGED <<is_capturing, chunk, ngets>>
    /\ UNCHANGED rconVars
    /\ UNCHANGED sessVars
    /\ UNCHANGED guildVars
    /\ UNCHANGED <<buffer, accepted, emitted, tasks, tlog, last_iter>>

\* The handler of QueueFull (lines 72-74): get_nowait() removes one frame, or
\* raises QueueEmpty when the consumer has emptied the queue meanwhile.
WriteDrop ==
    /\ wpc = "drop"
    /\ LET r == DropOldest(audio_queue)
       IN  /\ audio_queue' = r.queue
           /\ wcall' = [wcall EXCEPT !.empty_seen = r.exc = "QueueEmpty"]
    /\ wpc' = "put"
    /\ UNCHANGED <<is_capturing, chunk, nwrites, ngets>>
    /\ UNCHANGED rconVars
    /\ UNCHANGED sessVars
    /\ UNCHANGED pipeVars
    /\ UNCHANGED guildVars

\* The second put_nowait: after a removal (line 76) a QueueFull leaves write
\* as an exception, no handler encloses it; after QueueEmpty (lines 81-84) a
\* QueueFull is logged and the frame dropped.
WritePut ==
    /\ wpc = "put"
    /\ LET r == PutNowait(audio_queue, wcall.frame)
       IN  /\ audio_queue' = r.queue
           /\ wcall' = [wcall EXCEPT !.res =
                  IF r.exc = "none"
                  THEN (IF wcall.empty_seen THEN "enqueued" ELSE "replaced")
                  ELSE (IF wcall.empty_seen THEN "dropped" ELSE "raised")]
    /\ wpc' = "idle"
    /\ UNCHANGED <<is_capturing, chunk, nwrites, ngets>>
    /\ UNCHANGED rconVars
    /\ UNCHANGED sessVars
    /\ UNCHANGED pipeVars
    /\ UNCHANGED guildVars

\* get_audio_chunk(timeout): the oldest frame, or None when none arrives
\* within the timeout.  The record of a finished write is dropped; a running
\* write counts the frames taken under it.
GetAudioChunk ==
    /\ ngets < MaxGets
    /\ ngets' = ngets + 1
    /\ LET r == GetNowait(audio_queue)
       IN  /\ audio_queue' = r.queue
           /\ pcm_of' = Forget(pcm_of, r.item)
           /\ chunk' = r.item
           /\ wcall' = IF wpc = "idle" THEN NoWrite
                       ELSE IF r.exc = "none"
                       THEN [wcall EXCEPT !.pops = @ + 1]
                       ELSE wcall
    /\ UNCHANGED <<is_capturing, wpc, nwrites>>
    /\ UNCHANGED rconVars
    /\ UNCHANGED sessVars
    /\ UNCHANGED guildVars
    /\ UNCHANGED <<buffer, accepted, emitted, tasks, tlog, last_iter>>

\* Frames 1..n queued, oldest first.
Frames(n) == [i \in 1..n |-> i]

\* States of the queue a long capture leaves behind: one frame short of
\* full between two writes; and a write that met a full queue, which the
\* consumer has emptied before the handler's get_nowait.
QueueStates ==
    {[q |-> <<>>, cap |-> FALSE, wpc |-> "idle", w |-> NoWrite],
     [q |-> Frames(AUDIO_QUEUE_MAXSIZE - 1), cap |-> TRUE, wpc |-> "idle",
      w |-> NoWrite],
     [q |-> <<>>, cap |-> TRUE, wpc |-> "drop",
      w |-> [NoWrite EXCEPT !.frame = AUDIO_QUEUE_MAXSIZE + 1, !.pcm = "data",
                            !.capturing = TRUE,
                            !.before = Frames(AUDIO_QUEUE_MAXSIZE),
                            !.pops = AUDIO_QUEUE_MAXSIZE]]}

QueueInit ==
    /\ \E s \in QueueStates :
          /\ audio_queue = s.q
          /\ is_capturing = s.cap
          /\ wpc = s.wpc
          /\ wcall = s.w
    /\ chunk = NoFrame
    /\ nwrites = 0
    /\ ngets = 0
    /\ SessFresh
    /\ PipeFresh
    /\ GuildsFresh
    /\ connected = FALSE
    /\ last_command_time = [k \in Keys |-> NoTime]
    /\ now = 0
    /\ pc = "idle"
    /\ call = IdleCall
    /\ rlog = <<>>
    /\ fill_reply = <<>>
    /\ online = <<>>

QueueNext ==
    \/ StartCapturing
    \/ StopCapturing
    \/ \E pcm \in PcmKinds : Write(pcm)
    \/ WriteDrop
    \/ WritePut
    \/ GetAudioChunk

\* The producer and the consumer of the audio queue.
SpecQueue == QueueInit /\ [][QueueNext]_vars

(***************************************************************************)
(* A transcription session of one guild: start_transcribe and              *)
(* stop_transcribe (src/src/bot.py), the _process_audio_loop task they     *)
(* create and cancel, and the TranscriptionService it drives               *)
(* (src/src/transcription.py).  A step of a coroutine runs from one        *)
(* suspension to the next.  What get_audio_chunk returns to the loop is    *)
(* chosen by the environment.  A second start_transcribe is taken only     *)
(* when no stop_transcribe is awaiting its task.                           *)
(***************************************************************************)
\* chunk_48k_bytes of process_audio_chunk
ChunkBytes == DISCORD_PCM_RATE * WHISPER_CHUNK_SECONDS * 2

\* len(data.pcm) of a decoded 20 ms frame: 48 kHz, 2 channels, 16 bit.
FrameBytes == 3840

\* The owner of a load started by a _transcribe_chunk task.
ChunkOwner == -1

\* The loop task has finished, and how.
Ended == {"ended_load_failed", "ended_condition", "ended_breaker", "ended_cancelled"}

\* A teardown event.
Ev(name, n) == [ev |-> name, n |-> n]

\* stop_session(): nothing when no session is active; otherwise the flag is
\* cleared and the buffer emptied.
StopSession(tr, buf) ==
    IF ~tr THEN [is_transcribing |-> tr, audio_buffer |-> buf, events |-> <<>>]
    ELSE [is_transcribing |-> FALSE, audio_buffer |-> 0,
          events |-> <<Ev("stop_session", buf)>>]

\* flush_buffer(): the buffer is handed to _transcribe_chunk and emptied when
\* it is non-empty and a session is active.
FlushBuffer(tr, buf) ==
    IF buf > 0 /\ tr
    THEN [audio_buffer |-> 0, events |-> <<Ev("flush_buffer", buf)>>]
    ELSE [audio_buffer |-> buf, events |-> <<Ev("flush_buffer", 0)>>]

\* The finally block of _process_audio_loop (lines 244-252): stop_session(),
\* then flush_buffer().
Finally(tr, buf) ==
    LET a == StopSession(tr, buf)
        b == FlushBuffer(a.is_transcribing, a.audio_buffer)
    IN  [is_transcribing |-> a.is_transcribing, audio_buffer |-> b.audio_buffer,
         events |-> a.events \o b.events]

\* Sequence q without its element i.
RemoveAt(q, i) == SubSeq(q, 1, i - 1) \o SubSeq(q, i + 1, Len(q))

\* The coroutine that submitted the job is still awaiting its future.
Attached(owner) ==
    IF owner = ChunkOwner THEN model_lock = ChunkOwner
    ELSE owner = nsessions /\ lpc = "loading" /\ ~cancel_req

\* start_capturing() as start_transcribe sees it: capturing, or not capturing
\* because the client is not connected, or ClientException out of listen().
CaptureOutcomes == {"ok", "not_connected", "raises"}

\* start_transcribe (lines 354-383) for a guild with a VoiceClient.
StartTranscribe ==
    /\ spc = "idle"
    /\ ~transcribing
    /\ nsessions < MaxSessions
    /\ nsessions' = nsessions + 1
    /\ \E o \in (IF is_capturing THEN {"ok"} ELSE CaptureOutcomes) :
          /\ is_capturing' = (o = "ok")
          /\ IF o = "raises"
             THEN /\ transcribing' = FALSE
                  /\ UNCHANGED <<lpc, cancel_req, slog, since_ok>>
             ELSE /\ transcribing' = TRUE
                  /\ lpc' = "created"
                  /\ cancel_req' = FALSE
                  /\ slog' = <<>>
                  /\ since_ok' = <<>>
    /\ UNCHANGED <<spc, model, is_transcribing, audio_buffer, model_lock, loaders, nloaded, consecutive_errors, niters, ntasks>>
    /\ UNCHANGED <<audio_queue, wpc, wcall, chunk, nwrites, ngets>>
    /\ UNCHANGED rconVars
    /\ UNCHANGED pipeVars
    /\ UNCHANGED guildVars

\* The task runs _process_audio_loop into start_session (lines 78-93): an
\* active session returns at once; otherwise the lock is taken and the model
\* loaded in the executor when there is none.
TaskStart ==
    /\ lpc = "created"
    /\ ~cancel_req
    /\ is_transcribing \/ model_lock = NoHolder
    /\ IF is_transcribing
       THEN /\ lpc' = "loop"
            /\ consecutive_errors' = 0
            /\ UNCHANGED <<is_transcribing, audio_buffer, model_lock, loaders>>
       ELSE IF ~model
       THEN /\ model_lock' = nsessions
            /\ loaders' = Append(loaders, [owner |-> nsessions, st |-> "queued"])
            /\ lpc' = "loading"
            /\ UNCHANGED <<is_transcribing, audio_buffer, consecutive_errors>>
       ELSE /\ is_transcribing' = TRUE
            /\ audio_buffer' = 0
            /\ lpc' = "loop"
            /\ consecutive_errors' = 0
            /\ UNCHANGED <<model_lock, loaders>>
    /\ UNCHANGED <<transcribing, cancel_req, spc, model, nloaded, since_ok, slog, niters, nsessions, ntasks>>
    /\ UNCHANGED queueVars
    /\ UNCHANGED rconVars
    /\ UNCHANGED pipeVars
    /\ UNCHANGED guildVars

\* The coroutine awaiting a load resumes with its result: start_session sets
\* up the session, or clears the flag and raises, which ends the loop task
\* (lines 180-182); a _transcribe_chunk task goes on to transcribe.
Resume(owner, ok) ==
    IF ~Attached(owner)
    THEN UNCHANGED <<lpc, is_transcribing, audio_buffer, model_lock, consecutive_errors>>
    ELSE IF owner = ChunkOwner
    THEN /\ model_lock' = NoHolder
         /\ UNCHANGED <<lpc, is_transcribing, audio_buffer, consecutive_errors>>
    ELSE /\ model_lock' = NoHolder
         /\ is_transcribing' = ok
         /\ audio_buffer' = IF ok THEN 0 ELSE audio_buffer
         /\ lpc' = IF ok THEN "loop" ELSE "ended_load_failed"
         /\ consecutive_errors' = IF ok THEN 0 ELSE consecutive_errors

\* An executor thread takes job i and enters _load_model (line 55): with a
\* model present it returns at once, otherwise it starts constructing one.
LoadBegin(i) ==
    /\ i \in 1..Min(Len(loaders), EXECUTOR_WORKERS)
    /\ loaders[i].st = "queued"
    /\ IF model
       THEN /\ loaders' = RemoveAt(loaders, i)
            /\ Resume(loaders[i].owner, TRUE)
       ELSE /\ loaders' = [loaders EXCEPT ![i].st = "constructing"]
            /\ UNCHANGED <<lpc, is_transcribing, audio_buffer, model_lock, consecutive_errors>>
    /\ UNCHANGED <<transcribing, cancel_req, spc, model, nloaded, since_ok, slog, niters, nsessions, ntasks>>
    /\ UNCHANGED queueVars
    /\ UNCHANGED rconVars
    /\ UNCHANGED pipeVars
    /\ UNCHANGED guildVars

\* WhisperModel(...) of job i returns and self.model is assigned, or raises
\* (lines 57-66).
LoadEnd(i, ok) ==
    /\ i \in 1..Len(loaders)
    /\ loaders[i].st = "constructing"
    /\ model' = (model \/ ok)
    /\ nloaded' = IF ok THEN nloaded + 1 ELSE nloaded
    /\ loaders' = RemoveAt(loaders, i)
    /\ Resume(loaders[i].owner, ok)
    /\ UNCHANGED <<transcribing, cancel_req, spc, since_ok, slog, niters, nsessions, ntasks>>
    /\ UNCHANGED queueVars
    /\ UNCHANGED rconVars
    /\ UNCHANGED pipeVars
    /\ UNCHANGED guildVars

\* What one pass of the while body meets: no frame within the timeout, a
\* frame of odd length, a frame that process_audio_chunk takes, one on which
\* it raises, or an exception elsewhere in the body.
IterOutcomes == {"none", "odd", "ok", "exc", "iter_exc"}

\* The counter that a processed frame leaves untouched.
AfterOkKeepCount(n) == n

\* consecutive_errors after a processed frame (line 214).
AfterOk(n) == 0

\* process_audio_chunk(audio_data) (lines 154-182): the frame is appended to
\* the buffer; a full chunk is cut off its front and given to a new
\* _transcribe_chunk task.
ProcessAudioChunk(tr, buf) ==
    IF ~tr THEN [audio_buffer |-> buf, tasks |-> 0]
    ELSE IF buf + FrameBytes >= ChunkBytes
    THEN [audio_buffer |-> buf + FrameBytes - ChunkBytes, tasks |-> 1]
    ELSE [audio_buffer |-> buf + FrameBytes, tasks |-> 0]

\* One pass of the while body (lines 188-238) with the loop condition true.
LoopIter(o) ==
    /\ lpc = "loop"
    /\ ~cancel_req
    /\ transcribing /\ is_capturing
    /\ niters < MaxIters
    /\ niters' = niters + 1
    /\ LET errs == consecutive_errors + 1
           fin == Finally(is_transcribing, audio_buffer)
           p == ProcessAudioChunk(is_transcribing, audio_buffer)
       IN  CASE o = "none" ->
                  UNCHANGED <<lpc, is_transcribing, audio_buffer, consecutive_errors, since_ok, slog, ntasks>>
             [] o = "odd" ->
                  /\ since_ok' = Append(since_ok, "odd")
                  /\ UNCHANGED <<lpc, is_transcribing, audio_buffer, consecutive_errors, slog, ntasks>>
             [] o = "ok" ->
                  /\ audio_buffer' = p.audio_buffer
                  /\ ntasks' = ntasks + p.tasks
                  /\ consecutive_errors' = AfterOk(consecutive_errors)
                  /\ since_ok' = <<>>
                  /\ UNCHANGED <<lpc, is_transcribing, slog>>
             [] o \in {"exc", "iter_exc"} ->
                  /\ consecutive_errors' = errs
                  /\ since_ok' = Append(since_ok, o)
                  /\ IF errs >= MAX_ERRORS
                     THEN /\ lpc' = "ended_breaker"
                          /\ is_transcribing' = fin.is_transcribing
                          /\ audio_buffer' = fin.audio_buffer
                          /\ slog' = slog \o fin.events
                     ELSE UNCHANGED <<lpc, is_transcribing, audio_buffer, slog>>
                  /\ UNCHANGED ntasks
    /\ UNCHANGED <<transcribing, cancel_req, spc, model, model_lock, loaders, nloaded, nsessions>>
    /\ UNCHANGED queueVars
    /\ UNCHANGED rconVars
    /\ UNCHANGED pipeVars
    /\ UNCHANGED guildVars

\* The while condition (line 188) is false: the loop leaves through its
\* finally block.
LoopExit ==
    /\ lpc = "loop"
    /\ ~cancel_req
    /\ ~(transcribing /\ is_capturing)
    /\ LET fin == Finally(is_transcribing, audio_buffer)
       IN  /\ is_transcribing' = fin.is_transcribing
           /\ audio_buffer' = fin.audio_buffer
           /\ slog' = slog \o fin.events
    /\ lpc' = "ended_condition"
    /\ UNCHANGED <<transcribing, cancel_req, spc, model, model_lock, loaders, nloaded, consecutive_errors, since_ok, niters, nsessions, ntasks>>
    /\ UNCHANGED queueVars
    /\ UNCHANGED rconVars
    /\ UNCHANGED pipeVars
    /\ UNCHANGED guildVars

\* A _transcribe_chunk task runs (lines 207-234): it transcribes with the
\* model, or, with none, takes the lock and loads one first.
TranscribeChunk ==
    /\ ntasks > 0
    /\ model \/ model_lock = NoHolder
    /\ ntasks' = ntasks - 1
    /\ IF model
       THEN UNCHANGED <<model_lock, loaders>>
       ELSE /\ model_lock' = ChunkOwner
            /\ loaders' = Append(loaders, [owner |-> ChunkOwner, st |-> "queued"])
    /\ UNCHANGED <<transcribing, lpc, cancel_req, spc, model, is_transcribing, audio_buffer, nloaded, consecutive_errors, since_ok, slog, niters, nsessions>>
    /\ UNCHANGED queueVars
    /\ UNCHANGED rconVars
    /\ UNCHANGED pipeVars
    /\ UNCHANGED guildVars

\* stop_transcribe up to `await task` (lines 405-421): stop_capturing(), the
\* guild's flag cleared, the task cancelled.
StopTranscribe ==
    /\ spc = "idle"
    /\ transcribing
    /\ is_capturing' = FALSE
    /\ transcribing' = FALSE
    /\ cancel_req' = (lpc \notin Ended)
    /\ slog' = slog \o <<Ev("stop_capturing", 0), Ev("cancel", 0)>>
    /\ spc' = "awaiting"
    /\ UNCHANGED <<lpc, model, is_transcribing, audio_buffer, model_lock, loaders, nloaded, consecutive_errors, since_ok, niters, nsessions, ntasks>>
    /\ UNCHANGED <<audio_queue, wpc, wcall, chunk, nwrites, ngets>>
    /\ UNCHANGED rconVars
    /\ UNCHANGED pipeVars
    /\ UNCHANGED guildVars

\* The cancelled task runs: CancelledError is raised where it was suspended.
\* Before its first step nothing runs; inside start_session the lock is
\* released and the executor job goes on alone; inside the loop the finally
\* block runs (lines 240-252).
TaskCancelled ==
    /\ cancel_req
    /\ lpc \in {"created", "loading", "loop"}
    /\ LET fin == Finally(is_transcribing, audio_buffer)
       IN  CASE lpc = "created" ->
                  UNCHANGED <<is_transcribing, audio_buffer, model_lock, slog>>
             [] lpc = "loading" ->
                  /\ model_lock' = NoHolder
                  /\ UNCHANGED <<is_transcribing, audio_buffer, slog>>
             [] lpc = "loop" ->
                  /\ is_transcribing' = fin.is_transcribing
                  /\ audio_buffer' = fin.audio_buffer
                  /\ slog' = slog \o fin.events
                  /\ UNCHANGED model_lock
    /\ lpc' = "ended_cancelled"
    /\ UNCHANGED <<transcribing, cancel_req, spc, model, loaders, nloaded, consecutive_errors, since_ok, niters, nsessions, ntasks>>
    /\ UNCHANGED queueVars
    /\ UNCHANGED rconVars
    /\ UNCHANGED pipeVars
    /\ UNCHANGED guildVars

\* `await task` returns and stop_transcribe ends (lines 421-430).
StopFinish ==
    /\ spc = "awaiting"
    /\ lpc \in Ended
    /\ spc' = "idle"
    /\ cancel_req' = FALSE
    /\ slog' = Append(slog, Ev("stopped", 0))
    /\ UNCHANGED <<transcribing, lpc, model, is_transcribing, audio_buffer, model_lock, loaders, nloaded, consecutive_errors, since_ok, niters, nsessions, ntasks>>
    /\ UNCHANGED queueVars
    /\ UNCHANGED rconVars
    /\ UNCHANGED pipeVars
    /\ UNCHANGED guildVars

\* States a session is in: none yet; and a running loop, the model loaded,
\* with all but one frame of a chunk buffered.
SessionStates ==
    {[lpc |-> "none", on |-> FALSE, buf |-> 0, n |-> 0],
     [lpc |-> "loop", on |-> TRUE, buf |-> ChunkBytes - FrameBytes, n |-> 1]}

SessionInit ==
    /\ \E st \in SessionStates :
          /\ lpc = st.lpc
          /\ transcribing = st.on
          /\ is_capturing = st.on
          /\ model = st.on
          /\ is_transcribing = st.on
          /\ audio_buffer = st.buf
          /\ nsessions = st.n
          /\ nloaded = st.n
    /\ cancel_req = FALSE
    /\ spc = "idle"
    /\ model_lock = NoHolder
    /\ loaders = <<>>
    /\ consecutive_errors = 0
    /\ since_ok = <<>>
    /\ slog = <<>>
    /\ niters = 0
    /\ ntasks = 0
    /\ PipeFresh
    /\ GuildsFresh
    /\ audio_queue = <<>>
    /\ wpc = "idle"
    /\ wcall = NoWrite
    /\ chunk = NoFrame
    /\ nwrites = 0
    /\ ngets = 0
    /\ connected = FALSE
    /\ last_command_time = [k \in Keys |-> NoTime]
    /\ now = 0
    /\ pc = "idle"
    /\ call = IdleCall
    /\ rlog = <<>>
    /\ fill_reply = <<>>
    /\ online = <<>>

SessionNext ==
    \/ StartTranscribe
    \/ StopTranscribe
    \/ StopFinish
    \/ TaskStart
    \/ TaskCancelled
    \/ \E i \in 1..EXECUTOR_WORKERS : LoadBegin(i)
    \/ \E i \in 1..MaxSessions, ok \in BOOLEAN : LoadEnd(i, ok)
    \/ \E o \in IterOutcomes : LoopIter(o)
    \/ LoopExit
    \/ TranscribeChunk

\* The transcription sessions of one guild.
SpecSession == SessionInit /\ [][SessionNext]_vars

(***************************************************************************)
(* detect_block with a spoken radius, and replace_blocks_around_player.    *)
(***************************************************************************)
\* "clear chunk stone in 5 blocks"
R_in5 ==
    <<"c", "l", "e", "a", "r", " ", "c", "h", "u", "n", "k", " ", "s", "t",
    "o", "n", "e", " ", "i", "n", " ", "5", " ", "b", "l", "o", "c", "k",
    "s">>

\* "clear chunk stone radius 3"
R_radius3 ==
    <<"c", "l", "e", "a", "r", " ", "c", "h", "u", "n", "k", " ", "s", "t",
    "o", "n", "e", " ", "r", "a", "d", "i", "u", "s", " ", "3">>

\* "Stone, in 50 blocks!"
R_in50 ==
    <<"S", "t", "o", "n", "e", ",", " ", "i", "n", " ", "5", "0", " ", "b",
    "l", "o", "c", "k", "s", "!">>

\* "grass 7 blocks"
R_7blocks ==
    <<"g", "r", "a", "s", "s", " ", "7", " ", "b", "l", "o", "c", "k", "s">>

\* "diamond block 10"
R_bare10 ==
    <<"d", "i", "a", "m", "o", "n", "d", " ", "b", "l", "o", "c", "k", " ",
    "1", "0">>

\* "clear chunk stone radius 0"
R_radius0 ==
    <<"c", "l", "e", "a", "r", " ", "c", "h", "u", "n", "k", " ", "s", "t",
    "o", "n", "e", " ", "r", "a", "d", "i", "u", "s", " ", "0">>

\* "stone radius 2 in 4 blocks"
R_both ==
    <<"s", "t", "o", "n", "e", " ", "r", "a", "d", "i", "u", "s", " ", "2",
    " ", "i", "n", " ", "4", " ", "b", "l", "o", "c", "k", "s">>

\* "sand 8 blocks radius 6"
R_radius_first ==
    <<"s", "a", "n", "d", " ", "8", " ", "b", "l", "o", "c", "k", "s", " ",
    "r", "a", "d", "i", "u", "s", " ", "6">>

\* "clear chunk mud ore"
R_mud_ore ==
    <<"c", "l", "e", "a", "r", " ", "c", "h", "u", "n", "k", " ", "m", "u",
    "d", " ", "o", "r", "e">>

\* "stone within 9 block"
R_within ==
    <<"s", "t", "o", "n", "e", " ", "w", "i", "t", "h", "i", "n", " ", "9",
    " ", "b", "l", "o", "c", "k">>

\* "grass and stone"
R_stone_grass ==
    <<"g", "r", "a", "s", "s", " ", "a", "n", "d", " ", "s", "t", "o", "n",
    "e">>

\* Transcripts that name a radius, or two phrases of the vocabulary.
RadiusTranscripts ==
    { R_in5,
      R_radius3,
      R_in50, R_7blocks,
      R_bare10,
      R_radius0,
      R_both,
      R_radius_first,
      R_mud_ore,
      R_within,
      R_stone_grass }

DetectTranscripts == Transcripts \cup RadiusTranscripts

\* detect_block of every transcript, computed once.
DetectResultOf == [t \in DetectTranscripts |-> DetectBlock(t)]

\* detect_block(text, user_id)
DetectBlockCall(text, user_id) ==
    /\ Ready
    /\ LET block_info == DetectResultOf[text]
       IN  call' = [NewCall("detect", user_id) EXCEPT
                        !.text = text,
                        !.detected = block_info.found,
                        !.matched_word = block_info.matched_word,
                        !.radius = block_info.radius,
                        !.max_radius = MAX_RADIUS,
                        !.returned = TRUE]
    /\ pc' = "done"
    /\ rlog' = <<>>
    /\ UNCHANGED <<connected, last_command_time, now, fill_reply, online>>
    /\ UNCHANGED queueVars
    /\ UNCHANGED sessVars
    /\ UNCHANGED pipeVars
    /\ UNCHANGED guildVars

\* (2 * radius + 1) ** 2 * (radius + 2)
FillVolume(radius) == (2 * radius + 1) * (2 * radius + 1) * (radius + 2)

\* while volume > FILL_LIMIT_BLOCKS and radius > 0: radius -= 1
RECURSIVE FitFillLimit(_)
FitFillLimit(radius) ==
    IF FillVolume(radius) > FILL_LIMIT_BLOCKS /\ radius > 0
    THEN FitFillLimit(radius - 1)
    ELSE radius

\* f"execute as {player} at @s run fill ~-{radius} ~-1 ~-{radius}
\*   ~{radius} ~{radius} ~{radius} {block_id} replace {target_block}":
\* lo is the number printed after "~-", hi the number printed after "~".
RadiusFillCommand(player, radius, block_id, target_block) ==
    [verb |-> "fill", as |-> player, lo |-> radius, below |-> 1, hi |-> radius,
     block |-> block_id, mode |-> "replace", filter |-> target_block]

\* Values Config.MAX_RADIUS takes: the default, and one set by the
\* MAX_RADIUS environment variable.
MaxRadiusSettings == {MAX_RADIUS, 25}

\* Radii a caller may pass.
Radii == {-3, 0, 1, 3, 10, 11, 19, 20, 25, 999}

\* replace_blocks_around_player(player, block_id, radius, target_block) with
\* Config.MAX_RADIUS == max_radius.
ReplaceAroundPlayerCall(player, block_id, radius, target_block, max_radius) ==
    /\ Ready
    /\ LET clamped == FitFillLimit(ClampToMax(radius, max_radius))
           command == RadiusFillCommand(player, clamped, block_id, target_block)
       IN  \E r \in ExecuteCommand(command, NoUser, TRUE) :
              /\ connected' = r.connected
              /\ last_command_time' = r.lct
              /\ rlog' = r.events
              /\ call' = [NewCall("radius", NoUser) EXCEPT
                              !.command = command,
                              !.bypass = TRUE,
                              !.target = target_block,
                              !.replacement = block_id,
                              !.radius = radius,
                              !.max_radius = max_radius,
                              !.response = r.response, !.exc = r.exc,
                              !.returned = (r.response # NoneResp)]
    /\ pc' = "done"
    /\ UNCHANGED <<now, fill_reply, online>>
    /\ UNCHANGED queueVars
    /\ UNCHANGED sessVars
    /\ UNCHANGED pipeVars
    /\ UNCHANGED guildVars

RadiusInit == RconInit /\ fill_reply \in FillResponses /\ online = <<>>

RadiusNext ==
    \/ Connect
    \/ \E t \in DetectTranscripts, u \in UserIds : DetectBlockCall(t, u)
    \/ \E p \in PlayerNames, r \in Radii, m \in MaxRadiusSettings :
          ReplaceAroundPlayerCall(p, <<"minecraft:", "stone">>, r, Air, m)

\* The detector, and the RCON client under radius replaces.
SpecRadius == RadiusInit /\ [][RadiusNext]_vars

(***************************************************************************)
(* MinecraftRCON.say.                                                      *)
(***************************************************************************)
\* The longest message said.
MaxLen == 3

\* The characters of a message: a letter, a double quote, a backslash.
MessageChars == {"a", "\"", "\\"}

Messages == UNION {[1..n -> MessageChars] : n \in 0..MaxLen}

\* message.replace('"', '\\"'): a backslash before every double quote.
RECURSIVE EscapeQuotes(_)
EscapeQuotes(message) ==
    IF message = <<>> THEN <<>>
    ELSE (IF Head(message) = "\"" THEN <<"\\", "\"">> ELSE <<Head(message)>>)
            \o EscapeQuotes(Tail(message))

\* The escaping of say (line 335).
EscapeMessage(message) == EscapeQuotes(message)

\* f'say "{message}"'
SayCommand(message) ==
    [verb |-> "say",
     text |-> <<"s", "a", "y", " ", "\"">> \o message \o <<"\"">>]

\* say(message): the command goes through execute_command with no user and
\* no bypass; True unless the response is None.
SayCall(message) ==
    /\ Ready
    /\ LET command == SayCommand(EscapeMessage(message))
       IN  \E r \in ExecuteCommand(command, NoUser, FALSE) :
              /\ connected' = r.connected
              /\ last_command_time' = r.lct
              /\ rlog' = r.events
              /\ call' = [NewCall("say", NoUser) EXCEPT
                              !.command = command,
                              !.text = message,
                              !.response = r.response, !.exc = r.exc,
                              !.returned = ~r.response.none]
    /\ pc' = "done"
    /\ UNCHANGED <<now, fill_reply, online>>
    /\ UNCHANGED queueVars
    /\ UNCHANGED sessVars
    /\ UNCHANGED pipeVars
    /\ UNCHANGED guildVars

SayInit == RconInit /\ fill_reply = <<"ok">> /\ online = <<>>

SayNext ==
    \/ Connect
    \/ \E m \in Messages : SayCall(m)

\* The client under say.
SpecSay == SayInit /\ [][SayNext]_vars

(***************************************************************************)
(* The audio pipeline of a running session: the frames the sink queues     *)
(* (AudioQueueSink.write), the pass of _process_audio_loop that takes one  *)
(* frame and gives it to process_audio_chunk, the _transcribe_chunk tasks  *)
(* this creates, their transcriptions in the executor and the transcript   *)
(* callback.  A string of bytes is a sequence of runs, a run being the     *)
(* bytes lo..hi of the PCM of one frame.  The transcript callback calls    *)
(* the RCON client without awaiting, so no coroutine runs while an         *)
(* operation of the client is under way; the sink runs in a thread of its  *)
(* own.  The queue stays far from full.                                    *)
(***************************************************************************)
WHISPER_SAMPLE_RATE == 16000

RESAMPLE_RATIO == DISCORD_PCM_RATE \div WHISPER_SAMPLE_RATE

\* data.pcm of a frame: b'', a 20 ms frame, one a byte short, or one as long
\* as a chunk.
AudioPcm == {"empty", "odd", "data", "long"}

\* len(data.pcm)
PcmLen(pcm) ==
    CASE pcm = "data" -> FrameBytes
      [] pcm = "odd" -> FrameBytes - 1
      [] pcm = "long" -> ChunkBytes
      [] OTHER -> 0

Run(f, lo, hi) == [f |-> f, lo |-> lo, hi |-> hi]

\* The bytes of the PCM of frame f.
PcmBytes(f, pcm) ==
    IF PcmLen(pcm) = 0 THEN <<>> ELSE <<Run(f, 0, PcmLen(pcm) - 1)>>

\* len(b)
RECURSIVE BytesLen(_)
BytesLen(b) ==
    IF b = <<>> THEN 0
    ELSE (Head(b).hi - Head(b).lo + 1) + BytesLen(Tail(b))

\* b[:n]
RECURSIVE Take(_, _)
Take(b, n) ==
    IF n <= 0 \/ b = <<>> THEN <<>>
    ELSE LET h == Head(b)
             len == h.hi - h.lo + 1
         IN  IF len <= n THEN <<h>> \o Take(Tail(b), n - len)
             ELSE <<Run(h.f, h.lo, h.lo + n - 1)>>

\* A slice that keeps the whole string.
DropNothing(b, n) == b

\* b[n:]
RECURSIVE Drop(_, _)
Drop(b, n) ==
    IF n <= 0 \/ b = <<>> THEN b
    ELSE LET h == Head(b)
             len == h.hi - h.lo + 1
         IN  IF len <= n THEN Drop(Tail(b), n - len)
             ELSE <<Run(h.f, h.lo + n, h.hi)>> \o Tail(b)

\* len(_resample_48k_to_16k(pcm_48k)) (lines 137-144): nothing of less than
\* one sample, otherwise every third sample.
ResampledLen(n) ==
    IF n < 2 THEN 0
    ELSE 2 * (((n \div 2) + RESAMPLE_RATIO - 1) \div RESAMPLE_RATIO)

\* The length test that lets every frame pass.
OddLengthNever(n) == FALSE

\* len(audio_data) % 2 != 0 (bot.py line 200)
OddLength(n) == n % 2 # 0

\* process_audio_chunk(audio_data) on the bytes (lines 154-182): nothing
\* without a session; otherwise the data is appended, and a buffer of at
\* least chunk_48k_bytes loses that many bytes from its front, which go,
\* resampled, to a new _transcribe_chunk task unless nothing is left of them.
ProcessAudioBytes(tr, buf, data) ==
    LET b == buf \o data
    IN  IF ~tr
        THEN [buffer |-> buf, accepted |-> FALSE, sliced |-> FALSE,
              chunk |-> <<>>, task |-> FALSE]
        ELSE IF BytesLen(b) >= ChunkBytes
        THEN [buffer |-> Drop(b, ChunkBytes), accepted |-> TRUE, sliced |-> TRUE,
              chunk |-> Take(b, ChunkBytes),
              task |-> ResampledLen(BytesLen(Take(b, ChunkBytes))) # 0]
        ELSE [buffer |-> b, accepted |-> TRUE, sliced |-> FALSE,
              chunk |-> <<>>, task |-> FALSE]

\* The loop that goes on only when no transcription is pending.
LoopCanRunAwaiting ==
    /\ lpc = "loop"
    /\ ~cancel_req
    /\ transcribing /\ is_capturing
    /\ Ready
    /\ tasks = <<>>

\* The loop task is at its while condition (bot.py line 188), the condition
\* holds and the event loop is free to run the task.
LoopCanRun ==
    /\ lpc = "loop"
    /\ ~cancel_req
    /\ transcribing /\ is_capturing
    /\ Ready

\* One pass of the while body (bot.py lines 188-238) fed from the queue:
\* get_audio_chunk returns the oldest frame, or None after the timeout; a
\* frame without bytes or of odd length is skipped; process_audio_chunk
\* takes the frame, or raises, which counts as an error and after
\* max_errors of them ends the loop through its finally block.
PumpFrame(raises) ==
    /\ LoopCanRun
    /\ LET r == GetNowait(audio_queue)
           got == r.exc = "none"
           pcm == IF got THEN pcm_of[r.item] ELSE "none"
           n == PcmLen(pcm)
           p == ProcessAudioBytes(is_transcribing, buffer, PcmBytes(r.item, pcm))
           errs == consecutive_errors + 1
           fin == Finally(is_transcribing, audio_buffer)
           it == [NoIter EXCEPT !.frame = r.item, !.pcm = pcm,
                                !.errs_before = consecutive_errors,
                                !.errs_after = consecutive_errors,
                                !.buffer_before = audio_buffer,
                                !.pending = Len(tasks)]
       IN  /\ audio_queue' = r.queue
           /\ pcm_of' = Forget(pcm_of, r.item)
           /\ chunk' = r.item
           /\ wcall' = IF wpc = "idle" THEN NoWrite ELSE wcall
           /\ CASE ~got ->
                    /\ ~raises
                    /\ last_iter' = [it EXCEPT !.outcome = "timeout"]
                    /\ UNCHANGED <<lpc, is_transcribing, audio_buffer, consecutive_errors, slog, buffer, accepted, emitted, tasks>>
                [] got /\ n = 0 ->
                    /\ ~raises
                    /\ last_iter' = [it EXCEPT !.outcome = "empty"]
                    /\ UNCHANGED <<lpc, is_transcribing, audio_buffer, consecutive_errors, slog, buffer, accepted, emitted, tasks>>
                [] got /\ n # 0 /\ OddLength(n) ->
                    /\ ~raises
                    /\ last_iter' = [it EXCEPT !.outcome = "odd"]
                    /\ UNCHANGED <<lpc, is_transcribing, audio_buffer, consecutive_errors, slog, buffer, accepted, emitted, tasks>>
                [] got /\ n # 0 /\ ~OddLength(n) /\ raises ->
                    /\ consecutive_errors' = errs
                    /\ last_iter' = [it EXCEPT !.outcome = "exc", !.errs_after = errs]
                    /\ IF errs >= MAX_ERRORS
                       THEN /\ lpc' = "ended_breaker"
                            /\ is_transcribing' = fin.is_transcribing
                            /\ audio_buffer' = fin.audio_buffer
                            /\ buffer' = <<>>
                            /\ slog' = slog \o fin.events
                       ELSE UNCHANGED <<lpc, is_transcribing, audio_buffer, buffer, slog>>
                    /\ UNCHANGED <<accepted, emitted, tasks>>
                [] got /\ n # 0 /\ ~OddLength(n) /\ ~raises ->
                    /\ buffer' = p.buffer
                    /\ audio_buffer' = BytesLen(p.buffer)
                    /\ accepted' = IF p.accepted
                                   THEN Append(accepted, PcmBytes(r.item, pcm))
                                   ELSE accepted
                    /\ emitted' = IF p.sliced THEN Append(emitted, p.chunk)
                                  ELSE emitted
                    /\ tasks' = IF p.task
                                THEN Append(tasks, [n |-> Len(emitted) + 1,
                                                    st |-> "queued"])
                                ELSE tasks
                    /\ consecutive_errors' = AfterOk(consecutive_errors)
                    /\ last_iter' = [it EXCEPT !.outcome = "ok",
                                     !.errs_after = AfterOk(consecutive_errors)]
                    /\ UNCHANGED <<lpc, is_transcribing, slog>>
    /\ UNCHANGED <<is_capturing, wpc, nwrites, ngets>>
    /\ UNCHANGED <<transcribing, cancel_req, spc, model, model_lock, loaders, nloaded, since_ok, niters, nsessions, ntasks>>
    /\ UNCHANGED tlog
    /\ UNCHANGED rconVars
    /\ UNCHANGED guildVars

\* Some pass of the while body.
PumpAny == \E raises \in BOOLEAN : PumpFrame(raises)

\* The jobs of the tasks that an executor thread is running.
Running == {i \in 1..Len(tasks) : tasks[i].st = "running"}

\* A free thread of the executor takes the oldest job waiting: the
\* _run_transcription of a _transcribe_chunk task (lines 229-233).
TranscriptionBegin ==
    /\ Cardinality(Running) < EXECUTOR_WORKERS
    /\ \E i \in 1..Len(tasks) :
          /\ tasks[i].st = "queued"
          /\ \A j \in 1..(i - 1) : tasks[j].st # "queued"
          /\ tasks' = [tasks EXCEPT ![i].st = "running"]
    /\ UNCHANGED <<pcm_of, buffer, accepted, emitted, tlog, last_iter>>
    /\ UNCHANGED rconVars
    /\ UNCHANGED queueVars
    /\ UNCHANGED sessVars
    /\ UNCHANGED guildVars

\* " ".join(parts)
RECURSIVE JoinParts(_)
JoinParts(parts) ==
    IF parts = <<>> THEN <<>>
    ELSE IF Len(parts) = 1 THEN Head(parts)
    ELSE Head(parts) \o <<" ">> \o JoinParts(Tail(parts))

\* The text of a list of segments (lines 236-241): the stripped texts joined
\* by blanks, stripped.
SegmentText(segments) ==
    Strip(JoinParts([k \in 1..Len(segments) |-> Strip(segments[k])]))

\* The test that takes every text for speech.
HasTextAlways(text) == TRUE

\* `if text` (line 243)
HasText(text) == text # <<>>

\* " clear chunk" and "diamond block ": two segments of one utterance.
S_clear_chunk == <<" ">> \o SubSeq(T_diamond_block, 1, 11)

S_diamond_block == SubSeq(T_diamond_block, 13, 25) \o <<" ">>

\* What _run_transcription may give: it raises; no segment; segments of
\* blanks only; the segments of a command.
TranscriptionResults ==
    { [raises |-> TRUE, segments |-> <<>>],
      [raises |-> FALSE, segments |-> <<>>],
      [raises |-> FALSE, segments |-> << <<" ">>, <<>> >>],
      [raises |-> FALSE, segments |-> <<S_clear_chunk, S_diamond_block>>] }

\* The user the chunks are ascribed to.
Speaker == 1

\* A transcription returns and its _transcribe_chunk task goes on to its end
\* (lines 235-254): the text is put together and, if there is any, handed to
\* the transcript callback; an exception is logged.
TranscriptionEnd(i, res) ==
    /\ Ready
    /\ i \in Running
    /\ LET text == SegmentText(res.segments)
           called == ~res.raises /\ HasText(text)
       IN  /\ tlog' = Append(tlog, [n |-> tasks[i].n, segments |-> res.segments,
                                    raises |-> res.raises, text |-> text,
                                    called |-> called])
           /\ IF called
              THEN OnTranscriptBody(text, Speaker)
              ELSE UNCHANGED rconVars
    /\ tasks' = RemoveAt(tasks, i)
    /\ UNCHANGED <<pcm_of, buffer, accepted, emitted, last_iter>>
    /\ UNCHANGED queueVars
    /\ UNCHANGED sessVars
    /\ UNCHANGED guildVars

\* A session under way: the model loaded, the loop running, the sink
\* capturing, the RCON client connected, nobody online.
AudioInit ==
    /\ audio_queue = <<>>
    /\ is_capturing = TRUE
    /\ wpc = "idle"
    /\ wcall = NoWrite
    /\ chunk = NoFrame
    /\ nwrites = 0
    /\ ngets = 0
    /\ transcribing = TRUE
    /\ lpc = "loop"
    /\ cancel_req = FALSE
    /\ spc = "idle"
    /\ model = TRUE
    /\ is_transcribing = TRUE
    /\ audio_buffer = 0
    /\ model_lock = NoHolder
    /\ loaders = <<>>
    /\ nloaded = 1
    /\ consecutive_errors = 0
    /\ since_ok = <<>>
    /\ slog = <<>>
    /\ niters = 0
    /\ nsessions = 1
    /\ ntasks = 0
    /\ PipeFresh
    /\ GuildsFresh
    /\ connected = TRUE
    /\ last_command_time = [k \in Keys |-> NoTime]
    /\ now = 0
    /\ pc = "idle"
    /\ call = IdleCall
    /\ rlog = <<>>
    /\ fill_reply = <<>>
    /\ online = <<>>

AudioNext ==
    \/ \E pcm \in AudioPcm : Write(pcm)
    \/ PumpAny
    \/ TranscriptionBegin
    \/ \E i \in 1..MaxWrites, res \in TranscriptionResults : TranscriptionEnd(i, res)
    \/ ListStep

\* The audio pipeline of a running session.
SpecAudio == AudioInit /\ [][AudioNext]_vars

(***************************************************************************)
(* The bot in several guilds (src/src/bot.py): the /join, /leave,          *)
(* /start_transcribe and /stop_transcribe commands of each guild, the      *)
(* _process_audio_loop tasks they create, and the one TranscriptionService *)
(* that every loop drives (bot.py line 55; get_transcription_service,      *)
(* transcription.py lines 302-320).  A step of a coroutine runs from one   *)
(* suspension to the next.  A task runs its first step before any command  *)
(* that arrives after its creation, and a guild takes a new command when   *)
(* its last one has returned.  The model has been loaded by an earlier     *)
(* session.  The frames a loop gets are chosen by the environment.         *)
(***************************************************************************)
\* The users speaking in the voice channels.
Speakers == {1, 2}

\* /join commands taken.
MaxJoins == 2

\* Loop tasks created.
MaxLoops == 2

\* Frames handed to the loops.
MaxFrames == 2

\* Where the bytes of a frame come from: the guild of the queue, the user of
\* the frame.
Src(g, u) == [guild |-> g, user_id |-> u]

\* data.pcm of one 20 ms frame of user u in guild g.
FrameOf(g, u) == <<Run(Src(g, u), 0, FrameBytes - 1)>>

\* asyncio.create_task(bot._process_audio_loop(guild_id, voice_client))
NewLoop(g, c) ==
    [guild |-> g, client |-> c, pc |-> "created", cancel |-> FALSE, stopped |-> FALSE]

\* The loop tasks of guild g that have not finished.
LoopsOf(g) ==
    {t \in 1..Len(loop_tasks) : loop_tasks[t].guild = g /\ loop_tasks[t].pc # "done"}

\* Every task created has run its first step.
AllStarted == \A t \in 1..Len(loop_tasks) : loop_tasks[t].pc # "created"

\* The while condition of loop task t (bot.py line 188): the flag of its
\* guild and the capture flag of the client it was created with.
LoopCondition(t) ==
    /\ guild_transcribing[loop_tasks[t].guild]
    /\ client_capturing[loop_tasks[t].client]

\* start_session() with the model loaded (transcription.py lines 78-93): an
\* active session is left as it is; otherwise the flag is set and the buffer
\* emptied.
StartSession(tr, buf) ==
    IF tr THEN [is_transcribing |-> TRUE, buffer |-> buf]
    ELSE [is_transcribing |-> TRUE, buffer |-> <<>>]

\* Loop task t comes to its while condition with the service in state tr,
\* buf: it suspends in the body (get_audio_chunk, sleep), or leaves through
\* the finally block (bot.py lines 244-250).
LoopGoesOn(t, tr, buf) ==
    LET fin == Finally(tr, BytesLen(buf))
    IN  IF LoopCondition(t)
        THEN /\ loop_tasks' = [loop_tasks EXCEPT ![t].pc = "suspended"]
             /\ is_transcribing' = tr
             /\ buffer' = buf
             /\ audio_buffer' = BytesLen(buf)
        ELSE /\ loop_tasks' = [loop_tasks EXCEPT ![t].pc = "done"]
             /\ is_transcribing' = fin.is_transcribing
             /\ buffer' = IF fin.audio_buffer = 0 THEN <<>> ELSE buf
             /\ audio_buffer' = fin.audio_buffer

\* /join (bot.py lines 266-300) of a guild without a client: a new
\* VoiceClient, not capturing, and the guild's flag set to False.
Join(g) ==
    /\ AllStarted
    /\ custom_voice_clients[g] = NoClient
    /\ Len(client_capturing) < MaxJoins
    /\ client_capturing' = Append(client_capturing, FALSE)
    /\ custom_voice_clients' = [custom_voice_clients EXCEPT ![g] = Len(client_capturing) + 1]
    /\ guild_transcribing' = [guild_transcribing EXCEPT ![g] = FALSE]
    /\ UNCHANGED <<audio_processing_tasks, loop_tasks, handler, nframes>>
    /\ UNCHANGED rconVars
    /\ UNCHANGED queueVars
    /\ UNCHANGED sessVars
    /\ UNCHANGED pipeVars

\* /leave up to `await voice_client.disconnect()` (bot.py lines 303-318):
\* stop_capturing() on the guild's client.
Leave(g) ==
    /\ AllStarted
    /\ handler[g] = NoHandler
    /\ custom_voice_clients[g] # NoClient
    /\ client_capturing' = [client_capturing EXCEPT ![custom_voice_clients[g]] = FALSE]
    /\ handler' = [handler EXCEPT ![g] = [op |-> "leave", task |-> NoTask]]
    /\ UNCHANGED <<custom_voice_clients, guild_transcribing, audio_processing_tasks, loop_tasks, nframes>>
    /\ UNCHANGED rconVars
    /\ UNCHANGED queueVars
    /\ UNCHANGED sessVars
    /\ UNCHANGED pipeVars

\* disconnect() returns and /leave ends (bot.py lines 319-321): the guild's
\* client and flag are deleted; its loop task is left alone.
LeaveDone(g) ==
    /\ handler[g].op = "leave"
    /\ custom_voice_clients' = [custom_voice_clients EXCEPT ![g] = NoClient]
    /\ guild_transcribing' = [guild_transcribing EXCEPT ![g] = FALSE]
    /\ handler' = [handler EXCEPT ![g] = NoHandler]
    /\ UNCHANGED <<client_capturing, audio_processing_tasks, loop_tasks, nframes>>
    /\ UNCHANGED rconVars
    /\ UNCHANGED queueVars
    /\ UNCHANGED sessVars
    /\ UNCHANGED pipeVars

\* /start_transcribe (bot.py lines 336-383) of a guild with a client and not
\* transcribing: start_capturing(), the flag set, a loop task created and
\* put on record; an exception out of start_capturing() undoes the flag.
StartTranscribeIn(g) ==
    /\ AllStarted
    /\ handler[g] = NoHandler
    /\ custom_voice_clients[g] # NoClient
    /\ ~guild_transcribing[g]
    /\ Len(loop_tasks) < MaxLoops
    /\ LET c == custom_voice_clients[g]
       IN  \E o \in (IF client_capturing[c] THEN {"ok"} ELSE CaptureOutcomes) :
              /\ client_capturing' = [client_capturing EXCEPT ![c] = (o = "ok")]
              /\ IF o = "raises"
                 THEN /\ guild_transcribing' = [guild_transcribing EXCEPT ![g] = FALSE]
                      /\ UNCHANGED <<loop_tasks, audio_processing_tasks>>
                 ELSE /\ guild_transcribing' = [guild_transcribing EXCEPT ![g] = TRUE]
                      /\ loop_tasks' = Append(loop_tasks, NewLoop(g, c))
                      /\ audio_processing_tasks' = [audio_processing_tasks EXCEPT ![g] = Len(loop_tasks) + 1]
    /\ UNCHANGED <<custom_voice_clients, handler, nframes>>
    /\ UNCHANGED rconVars
    /\ UNCHANGED queueVars
    /\ UNCHANGED sessVars
    /\ UNCHANGED pipeVars

\* /stop_transcribe up to `await task` (bot.py lines 387-421) of a guild
\* that is transcribing: stop_capturing(), the flag cleared, the task on
\* record cancelled.
StopTranscribeIn(g) ==
    /\ AllStarted
    /\ handler[g] = NoHandler
    /\ custom_voice_clients[g] # NoClient
    /\ guild_transcribing[g]
    /\ client_capturing' = [client_capturing EXCEPT ![custom_voice_clients[g]] = FALSE]
    /\ guild_transcribing' = [guild_transcribing EXCEPT ![g] = FALSE]
    /\ LET t == audio_processing_tasks[g]
       IN  IF t = NoTask
           THEN UNCHANGED <<loop_tasks, handler>>
           ELSE /\ loop_tasks' = [loop_tasks EXCEPT ![t].cancel = (loop_tasks[t].pc # "done")]
                /\ handler' = [handler EXCEPT ![g] = [op |-> "stop", task |-> t]]
    /\ UNCHANGED <<custom_voice_clients, audio_processing_tasks, nframes>>
    /\ UNCHANGED rconVars
    /\ UNCHANGED queueVars
    /\ UNCHANGED sessVars
    /\ UNCHANGED pipeVars

\* `await task` returns and /stop_transcribe ends (bot.py lines 421-430):
\* the guild's task is taken off the record.
StopDoneIn(g) ==
    /\ handler[g].op = "stop"
    /\ loop_tasks[handler[g].task].pc = "done"
    /\ audio_processing_tasks' = [audio_processing_tasks EXCEPT ![g] = NoTask]
    /\ loop_tasks' = [loop_tasks EXCEPT ![handler[g].task].stopped = TRUE]
    /\ handler' = [handler EXCEPT ![g] = NoHandler]
    /\ UNCHANGED <<custom_voice_clients, client_capturing, guild_transcribing, nframes>>
    /\ UNCHANGED rconVars
    /\ UNCHANGED queueVars
    /\ UNCHANGED sessVars
    /\ UNCHANGED pipeVars

\* The first step of loop task t (bot.py lines 173-189): start_session(),
\* then the while condition.
LoopFirstStep(t) ==
    /\ t \in 1..Len(loop_tasks)
    /\ loop_tasks[t].pc = "created"
    /\ LET s == StartSession(is_transcribing, buffer)
       IN  LoopGoesOn(t, s.is_transcribing, s.buffer)
    /\ UNCHANGED <<custom_voice_clients, client_capturing, guild_transcribing, audio_processing_tasks, handler, nframes>>
    /\ UNCHANGED <<transcribing, lpc, cancel_req, spc, model, model_lock, loaders, nloaded, consecutive_errors, since_ok, slog, niters, nsessions, ntasks>>
    /\ UNCHANGED <<pcm_of, accepted, emitted, tasks, tlog, last_iter>>
    /\ UNCHANGED rconVars
    /\ UNCHANGED queueVars

\* get_audio_chunk gives loop task t a frame of user u from the queue of its
\* client (bot.py lines 190-214): process_audio_chunk(audio_data, user_id)
\* appends it to the service's buffer and gives a full chunk to a new
\* _transcribe_chunk task with this user_id (transcription.py lines
\* 154-182); then the while condition.
LoopFrame(t, u) ==
    /\ t \in 1..Len(loop_tasks)
    /\ loop_tasks[t].pc = "suspended"
    /\ ~loop_tasks[t].cancel
    /\ nframes < MaxFrames
    /\ nframes' = nframes + 1
    /\ LET p == ProcessAudioBytes(is_transcribing, buffer, FrameOf(loop_tasks[t].guild, u))
       IN  /\ emitted' = IF p.sliced THEN Append(emitted, p.chunk) ELSE emitted
           /\ tasks' = IF p.task
                       THEN Append(tasks, [n |-> Len(emitted) + 1, st |-> "queued",
                                           user_id |-> u, loop |-> t])
                       ELSE tasks
           /\ LoopGoesOn(t, is_transcribing, p.buffer)
    /\ UNCHANGED <<custom_voice_clients, client_capturing, guild_transcribing, audio_processing_tasks, handler>>
    /\ UNCHANGED <<transcribing, lpc, cancel_req, spc, model, model_lock, loaders, nloaded, consecutive_errors, since_ok, slog, niters, nsessions, ntasks>>
    /\ UNCHANGED <<pcm_of, accepted, tlog, last_iter>>
    /\ UNCHANGED rconVars
    /\ UNCHANGED queueVars

\* get_audio_chunk gives loop task t nothing within its timeout (bot.py
\* lines 190-192, 222-224): then the while condition.
LoopTimeout(t) ==
    /\ t \in 1..Len(loop_tasks)
    /\ loop_tasks[t].pc = "suspended"
    /\ ~loop_tasks[t].cancel
    /\ LoopGoesOn(t, is_transcribing, buffer)
    /\ UNCHANGED <<custom_voice_clients, client_capturing, guild_transcribing, audio_processing_tasks, handler, nframes>>
    /\ UNCHANGED <<transcribing, lpc, cancel_req, spc, model, model_lock, loaders, nloaded, consecutive_errors, since_ok, slog, niters, nsessions, ntasks>>
    /\ UNCHANGED <<pcm_of, accepted, emitted, tasks, tlog, last_iter>>
    /\ UNCHANGED rconVars
    /\ UNCHANGED queueVars

\* The cancelled loop task t runs: CancelledError is raised where it is
\* suspended and the finally block runs (bot.py lines 240-250).
LoopCancelled(t) ==
    /\ t \in 1..Len(loop_tasks)
    /\ loop_tasks[t].pc = "suspended"
    /\ loop_tasks[t].cancel
    /\ LET fin == Finally(is_transcribing, BytesLen(buffer))
       IN  /\ is_transcribing' = fin.is_transcribing
           /\ buffer' = IF fin.audio_buffer = 0 THEN <<>> ELSE buffer
           /\ audio_buffer' = fin.audio_buffer
    /\ loop_tasks' = [loop_tasks EXCEPT ![t].pc = "done"]
    /\ UNCHANGED <<custom_voice_clients, client_capturing, guild_transcribing, audio_processing_tasks, handler, nframes>>
    /\ UNCHANGED <<transcribing, lpc, cancel_req, spc, model, model_lock, loaders, nloaded, consecutive_errors, since_ok, slog, niters, nsessions, ntasks>>
    /\ UNCHANGED <<pcm_of, accepted, emitted, tasks, tlog, last_iter>>
    /\ UNCHANGED rconVars
    /\ UNCHANGED queueVars

\* The transcription of _transcribe_chunk task i returns and the task goes
\* on to its end (transcription.py lines 229-254): a text, if there is any,
\* goes to the transcript callback with the task's user_id.
ChunkTranscribed(i, res) ==
    /\ Ready
    /\ i \in 1..Len(tasks)
    /\ LET text == SegmentText(res.segments)
           called == ~res.raises /\ HasText(text)
       IN  /\ tlog' = Append(tlog, [n |-> tasks[i].n, user_id |-> tasks[i].user_id,
                                    loop |-> tasks[i].loop, called |-> called,
                                    after_stop |-> loop_tasks[tasks[i].loop].stopped])
           /\ IF called
              THEN OnTranscriptBody(text, tasks[i].user_id)
              ELSE UNCHANGED rconVars
    /\ tasks' = RemoveAt(tasks, i)
    /\ UNCHANGED <<pcm_of, buffer, accepted, emitted, last_iter>>
    /\ UNCHANGED queueVars
    /\ UNCHANGED sessVars
    /\ UNCHANGED guildVars

\* States the bot is in: no guild joined; and guild 1 in a session, its loop
\* suspended in the body, with all but one frame of a chunk buffered from
\* user 1.
GuildStates ==
    {[clients |-> <<>>, of |-> NoClient, on |-> FALSE, loops |-> <<>>, task |-> NoTask,
      buffer |-> <<>>],
     [clients |-> <<TRUE>>, of |-> 1, on |-> TRUE,
      loops |-> <<[NewLoop(1, 1) EXCEPT !.pc = "suspended"]>>, task |-> 1,
      buffer |-> <<Run(Src(1, 1), 0, ChunkBytes - FrameBytes - 1)>>]}

GuildsInit ==
    /\ \E st \in GuildStates :
          /\ client_capturing = st.clients
          /\ custom_voice_clients = [g \in Guilds |-> IF g = 1 THEN st.of ELSE NoClient]
          /\ guild_transcribing = [g \in Guilds |-> g = 1 /\ st.on]
          /\ audio_processing_tasks = [g \in Guilds |-> IF g = 1 THEN st.task ELSE NoTask]
          /\ loop_tasks = st.loops
          /\ is_transcribing = st.on
          /\ buffer = st.buffer
          /\ audio_buffer = BytesLen(st.buffer)
    /\ handler = [g \in Guilds |-> NoHandler]
    /\ nframes = 0
    /\ pcm_of = EmptyMap
    /\ accepted = <<>>
    /\ emitted = <<>>
    /\ tasks = <<>>
    /\ tlog = <<>>
    /\ last_iter = NoIter
    /\ transcribing = FALSE
    /\ lpc = "none"
    /\ cancel_req = FALSE
    /\ spc = "idle"
    /\ model = TRUE
    /\ model_lock = NoHolder
    /\ loaders = <<>>
    /\ nloaded = 1
    /\ consecutive_errors = 0
    /\ since_ok = <<>>
    /\ slog = <<>>
    /\ niters = 0
    /\ nsessions = 0
    /\ ntasks = 0
    /\ QueueFresh
    /\ connected = TRUE
    /\ last_command_time = [k \in Keys \cup {CooldownKey(u) : u \in Speakers} |-> NoTime]
    /\ now = 0
    /\ pc = "idle"
    /\ call = IdleCall
    /\ rlog = <<>>
    /\ fill_reply = <<>>
    /\ online = <<>>

GuildsNext ==
    \/ \E g \in Guilds : Join(g)
    \/ \E g \in Guilds : Leave(g)
    \/ \E g \in Guilds : LeaveDone(g)
    \/ \E g \in Guilds : StartTranscribeIn(g)
    \/ \E g \in Guilds : StopTranscribeIn(g)
    \/ \E g \in Guilds : StopDoneIn(g)
    \/ \E t \in 1..MaxLoops : LoopFirstStep(t)
    \/ \E t \in 1..MaxLoops, u \in Speakers : LoopFrame(t, u)
    \/ \E t \in 1..MaxLoops : LoopTimeout(t)
    \/ \E t \in 1..MaxLoops : LoopCancelled(t)
    \/ \E i \in 1..MaxFrames, res \in TranscriptionResults : ChunkTranscribed(i, res)
    \/ ListStep

\* The bot's sessions in several guilds on one transcription service.
SpecGuilds == GuildsInit /\ [][GuildsNext]_vars



(***************************************************************************)
(* Reading the log of remote interactions.                                 *)
(***************************************************************************)
IsSend(e) == e.ev = "send"

IsConnect(e) == e.ev = "connect"

IsFillFor(e, p) == e.cmd.verb = "fill" /\ e.cmd.as = p

\* The fill commands sent for player p, in issue order.
FillsFor(p) == SelectSeq(rlog, LAMBDA e : IsSend(e) /\ IsFillFor(e, p))

\* Everything done on behalf of player p's fills, connects included.
EventsFor(p) == SelectSeq(rlog, LAMBDA e : IsFillFor(e, p))

AllOk(f) == \A k \in 1..Len(f) : f[k].ok

RECURSIVE SumHeights(_)
SumHeights(f) ==
    IF f = <<>> THEN 0
    ELSE (Head(f).cmd.y2 - Head(f).cmd.y1 + 1) + SumHeights(Tail(f))

\* ceil(a / b) for a >= 0, b > 0.
CeilDiv(a, b) == CHOOSE n \in 0..a : n * b >= a /\ (n = 0 \/ (n - 1) * b < a)

ChunkKinds == {"chunk_player", "chunk_all", "transcript"}

Footprint == (2 * CHUNK_RADIUS + 1) * (2 * CHUNK_RADIUS + 1)

\* A chunk replace for player p has returned True with no send raising.
CleanSuccess(p) ==
    /\ pc = "done"
    /\ call.kind \in ChunkKinds
    /\ p \in DOMAIN call.results
    /\ call.results[p]
    /\ AllOk(FillsFor(p))

(***************************************************************************)
(* C1: when replace_blocks_in_chunk_around_player runs with                *)
(* world_min_y <= world_max_y and no command fails, the y ranges of its    *)
(* fill commands, in issue order, start at world_min_y, end at             *)
(* world_max_y, each start at the previous end + 1, and their heights sum  *)
(* to world_max_y - world_min_y + 1.                                       *)
(***************************************************************************)
C1_SlabsTileSpan ==
    \A p \in PlayerNames :
        (CleanSuccess(p) /\ call.min_y <= call.max_y) =>
            LET f == FillsFor(p)
            IN  /\ Len(f) >= 1
                /\ f[1].cmd.y1 = call.min_y
                /\ f[Len(f)].cmd.y2 = call.max_y
                /\ \A k \in 1..Len(f) : f[k].cmd.y1 <= f[k].cmd.y2
                /\ \A k \in 1..(Len(f) - 1) : f[k + 1].cmd.y1 = f[k].cmd.y2 + 1
                /\ SumHeights(f) = call.max_y - call.min_y + 1

C1_Witness ==
    /\ CleanSuccess(<<"Alice">>)
    /\ call.kind = "chunk_player"
    /\ call.min_y = DefaultWorldMinY /\ call.max_y = DefaultWorldMaxY
    /\ Len(FillsFor(<<"Alice">>)) = 4

(***************************************************************************)
(* C2: every fill command of a chunk replace covers at most                *)
(* FILL_LIMIT_BLOCKS blocks, (y_end - y_start + 1) * (2*CHUNK_RADIUS+1)^2, *)
(* and ends at or below world_max_y; a fully successful call sends exactly *)
(* ceil(span / segment_height) commands, the last one ending at            *)
(* world_max_y.                                                            *)
(***************************************************************************)
C2_SlabWithinLimit ==
    /\ \A k \in 1..Len(rlog) :
          (IsSend(rlog[k]) /\ rlog[k].cmd.verb = "fill") =>
              /\ (rlog[k].cmd.y2 - rlog[k].cmd.y1 + 1) * Footprint
                     <= FILL_LIMIT_BLOCKS
              /\ rlog[k].cmd.y2 <= call.max_y
              /\ rlog[k].cmd.x1 = -CHUNK_RADIUS /\ rlog[k].cmd.x2 = CHUNK_RADIUS
              /\ rlog[k].cmd.z1 = -CHUNK_RADIUS /\ rlog[k].cmd.z2 = CHUNK_RADIUS
    /\ \A p \in PlayerNames :
          CleanSuccess(p) =>
              LET f == FillsFor(p)
                  span == call.max_y - call.min_y + 1
              IN  /\ Len(f) = CeilDiv(span, FILL_LIMIT_BLOCKS \div Footprint)
                  /\ Len(f) >= 1 => f[Len(f)].cmd.y2 = call.max_y

C2_Witness ==
    /\ CleanSuccess(<<"Bob">>)
    /\ call.min_y = 0 /\ call.max_y = 113
    /\ Len(FillsFor(<<"Bob">>)) = 2
    /\ FillsFor(<<"Bob">>)[2].cmd.y1 = 113
    /\ FillsFor(<<"Bob">>)[2].cmd.y2 = 113

(***************************************************************************)
(* C3: when a send raises inside execute_command, exactly one reconnect    *)
(* is attempted; if it succeeds the same command is sent once more and the *)
(* outcome of that send is the result; if the reconnect fails or the       *)
(* re-send raises the result is None; nothing else is sent or connected.   *)
(***************************************************************************)
\* The log of a direct call from its first send on.
FromFirstSend ==
    IF rlog # <<>> /\ IsConnect(rlog[1]) THEN Tail(rlog) ELSE rlog

C3_OneReconnectOneRetry ==
    (pc = "done" /\ call.kind = "execute") =>
        LET t == FromFirstSend
        IN  (t # <<>> /\ IsSend(t[1]) /\ ~t[1].ok) =>
                /\ Len(t) >= 2
                /\ IsConnect(t[2])
                /\ IF t[2].ok
                   THEN /\ Len(t) = 3
                        /\ IsSend(t[3])
                        /\ t[3].cmd = t[1].cmd
                        /\ t[1].cmd = call.command
                        /\ call.response =
                              IF t[3].ok THEN Str(t[3].text) ELSE NoneResp
                   ELSE /\ Len(t) = 2
                        /\ call.response = NoneResp
                /\ ~call.exc

C3_Witness ==
    /\ pc = "done" /\ call.kind = "execute"
    /\ call.was_connected
    /\ Len(rlog) = 3
    /\ IsSend(rlog[1]) /\ ~rlog[1].ok
    /\ IsConnect(rlog[2]) /\ rlog[2].ok
    /\ IsSend(rlog[3]) /\ rlog[3].ok
    /\ call.response = Str(FormatList(<<"Alice">>))

(***************************************************************************)
(* C4: a non-bypassed execute_command request that arrives less than       *)
(* cooldown_seconds after the last successful command of its key returns   *)
(* None without any remote interaction: no send and no connect, whatever   *)
(* the connection flag.  (The code connects first when it is               *)
(* disconnected, and checks the cooldown after.)                           *)
(***************************************************************************)
WithinCooldown ==
    /\ pc = "done"
    /\ call.kind = "execute"
    /\ ~call.bypass
    /\ call.last_before # NoTime
    /\ call.at - call.last_before < COOLDOWN_SECONDS

C4_CooldownRejectsWithoutContact ==
    WithinCooldown => (call.response = NoneResp /\ rlog = <<>>)

(***************************************************************************)
(* C5: a non-bypassed execute_command request whose key has no timestamp,  *)
(* or one at least cooldown_seconds old, is not rejected by the cooldown:  *)
(* once the client is connected the command is sent; when the send         *)
(* succeeds its response is returned and the key's timestamp is the time   *)
(* of this execution.                                                      *)
(***************************************************************************)
OutsideCooldown ==
    /\ pc = "done"
    /\ call.kind = "execute"
    /\ ~call.bypass
    /\ \/ call.last_before = NoTime
       \/ call.at - call.last_before >= COOLDOWN_SECONDS

\* The call got past `if not self.connected` with a connection.
ReachedGate ==
    \/ call.was_connected
    \/ rlog # <<>> /\ IsConnect(rlog[1]) /\ rlog[1].ok

C5_ExpiredCooldownRuns ==
    OutsideCooldown =>
        LET t == FromFirstSend
            key == CooldownKey(call.user_id)
        IN  /\ ReachedGate =>
                  (t # <<>> /\ IsSend(t[1]) /\ t[1].cmd = call.command)
            /\ (ReachedGate /\ t # <<>> /\ t[1].ok) =>
                  /\ Len(t) = 1
                  /\ call.response = Str(t[1].text)
            /\ call.response # NoneResp =>
                  last_command_time[key] = call.at
            /\ call.response = NoneResp =>
                  last_command_time[key] = call.last_before

C5_Witness ==
    /\ OutsideCooldown
    /\ call.user_id = 1
    /\ call.last_before # NoTime
    /\ call.at - call.last_before = COOLDOWN_SECONDS
    /\ call.response # NoneResp
    /\ Len(rlog) = 1
    /\ last_command_time[CooldownKey(1)] = call.at

(***************************************************************************)
(* C6: in replace_blocks_in_chunk_around_all_players the result has        *)
(* exactly one entry per listed player; a player maps to True exactly when *)
(* every slab of theirs was sent successfully, and to False when one slab  *)
(* failed, after which no later slab of that player is attempted; every    *)
(* listed player has their first slab attempted whatever happened to the   *)
(* others; and no exception leaves the call.                               *)
(***************************************************************************)
Attempted(p, i) ==
    \E k \in 1..Len(rlog) :
        IsFillFor(rlog[k], p) /\ rlog[k].cmd.y1 = YStart(call.min_y, i)

Succeeded(p, i) ==
    \E k \in 1..Len(rlog) :
        /\ IsFillFor(rlog[k], p) /\ rlog[k].cmd.y1 = YStart(call.min_y, i)
        /\ IsSend(rlog[k]) /\ rlog[k].ok

\* The players named by the `list` response of this call.
ListedPlayers ==
    LET answers == SelectSeq(rlog, LAMBDA e :
                        IsSend(e) /\ e.ok /\ e.cmd.verb = "list")
    IN  IF answers = <<>> THEN <<>> ELSE ParsePlayers(Str(answers[1].text))

FanOutDone == pc = "done" /\ call.kind \in {"chunk_all", "transcript"}

C6_FanOutIsolatesFailures ==
    /\ ~call.exc
    /\ FanOutDone =>
          LET listed == {ListedPlayers[k] : k \in 1..Len(ListedPlayers)}
              N == NumSegments(call.min_y, call.max_y)
          IN  /\ DOMAIN call.results = listed
              /\ \A p \in listed :
                    /\ call.results[p] <=> \A i \in 0..(N - 1) : Succeeded(p, i)
                    /\ ~call.results[p] =>
                          \E j \in 0..(N - 1) :
                              /\ Attempted(p, j) /\ ~Succeeded(p, j)
                              /\ \A i \in 0..(j - 1) : Succeeded(p, i)
                              /\ \A i \in (j + 1)..(N - 1) : ~Attempted(p, i)
                    /\ N >= 1 => Attempted(p, 0)

C6_Witness ==
    /\ FanOutDone
    /\ call.results = [p \in PlayerNames |->
                          IF p = <<"Alice">> THEN FALSE ELSE TRUE]
    /\ call.min_y = 0 /\ call.max_y = 255
    /\ Succeeded(<<"Alice">>, 0) /\ Attempted(<<"Alice">>, 1)
    /\ ~Attempted(<<"Alice">>, 2)
    /\ Succeeded(<<"Bob">>, 2)

(***************************************************************************)
(* C7: _on_transcript makes no remote interaction, neither a command (not  *)
(* even `list`) nor a connect attempt, for a transcript unless             *)
(* detect_block returns a vocabulary match and the normalized transcript   *)
(* contains the trigger phrase "clear chunk".                              *)
(***************************************************************************)
HasTrigger(text) == IsSubstring(TriggerPhrase, NormalizedOf[text])

C7_NoRemoteWithoutMatchAndTrigger ==
    (call.kind = "transcript" /\ rlog # <<>>) =>
        (DetectOf[call.text].found /\ HasTrigger(call.text))

C7_Witness ==
    /\ pc = "done" /\ call.kind = "transcript"
    /\ call.text = T_split
    /\ DetectOf[call.text].found
    /\ ~HasTrigger(call.text)
    /\ ~call.was_connected
    /\ rlog = <<>>

(***************************************************************************)
(* C8: for a transcript whose normalized text contains the trigger phrase  *)
(* and for which detect_block selects (longest whole-word match first) an  *)
(* entry whose block id, the first element when it is a list, is a string  *)
(* B starting with "minecraft:", when the connect (if one is needed) and   *)
(* every command succeed and `list` answers with the online players, the   *)
(* handler sends for each online player exactly N fills, N the slab count  *)
(* of the default span, each replacing B by minecraft:air, for nobody      *)
(* else, and the result maps every online player to True.                  *)
(***************************************************************************)
\* The online players, as the names parse_players yields.
OnlineSet == {<<online[k]>> : k \in 1..Len(online)}

\* Every `list` of the log was answered with the players that are online.
ListAnsweredOnline ==
    \A k \in 1..Len(rlog) :
        (IsSend(rlog[k]) /\ rlog[k].cmd.verb = "list") =>
            rlog[k].text = FormatList(online)

\* A transcript call that ended with every remote interaction succeeding.
TranscriptAllOk ==
    /\ pc = "done" /\ call.kind = "transcript"
    /\ HasTrigger(call.text)
    /\ AllOk(rlog)
    /\ ListAnsweredOnline

\* Every online player got exactly N fills replacing B by air, and True.
ClearedForAll(B) ==
    LET N == NumSegments(DefaultWorldMinY, DefaultWorldMaxY)
    IN  /\ DOMAIN call.results = OnlineSet
        /\ \A p \in OnlineSet :
              /\ call.results[p]
              /\ Len(FillsFor(p)) = N
              /\ \A k \in 1..Len(FillsFor(p)) :
                    /\ FillsFor(p)[k].cmd.block = Air
                    /\ FillsFor(p)[k].cmd.filter = B
        /\ \A k \in 1..Len(rlog) :
              rlog[k].cmd.verb = "fill" => rlog[k].cmd.as \in OnlineSet

C8_DetectedBlockCleared ==
    LET r == ResolveBlockId(DetectOf[call.text].block_id)
    IN  (TranscriptAllOk /\ DetectOf[call.text].found /\ ValidBlockId(r)) =>
            /\ \E k \in 1..Len(rlog) : IsSend(rlog[k]) /\ rlog[k].cmd = ListCommand
            /\ ClearedForAll(r.id)

C8_Witness ==
    /\ TranscriptAllOk
    /\ call.text = T_clear_grass
    /\ ~call.was_connected
    /\ online = <<"Alice", "Bob">>
    /\ call.results = [p \in PlayerNames |-> TRUE]
    /\ Len(rlog) = 10
    /\ Len(FillsFor(<<"Bob">>)) = 4
    /\ FillsFor(<<"Bob">>)[4].cmd.filter = <<"minecraft:", "grass_block">>
    /\ FillsFor(<<"Bob">>)[4].cmd.block = Air

\* The statement without the selection and validation of the block id: any
\* vocabulary phrase found in the normalized text as a whole word, with the
\* block id it maps to.
C8_AnyContainedPhraseCleared ==
    TranscriptAllOk =>
        \A k \in 1..Len(BlockWords) :
            LET r == ResolveBlockId(BlockWords[k].block_id)
            IN  (/\ WholeWordSearch(NormalizeText(BlockWords[k].word),
                                    NormalizedOf[call.text])
                 /\ ~r.none) => ClearedForAll(r.id)

(***************************************************************************)
(* C9: after any sequence of frame deliveries (AudioQueueSink.write) and   *)
(* consumer pops (get_audio_chunk) the audio queue holds at most its       *)
(* capacity of 1500 frames.                                                *)
(***************************************************************************)
C9_QueueWithinCapacity == Len(audio_queue) <= AUDIO_QUEUE_MAXSIZE

C9_Witness ==
    /\ Len(audio_queue) = AUDIO_QUEUE_MAXSIZE
    /\ wpc = "idle" /\ wcall.res = "replaced"
    /\ ngets >= 1 /\ chunk = 1

(***************************************************************************)
(* C10: AudioQueueSink.write never blocks and never raises: a running      *)
(* write can always take its next step, and every call ends with the frame *)
(* enqueued or dropped.  A write that finds the queue with room appends    *)
(* its frame; a write that finds it full removes exactly one frame, the    *)
(* oldest left, and appends its own at the tail: the queue it leaves is    *)
(* the queue it found, less the frames the consumer took meanwhile, less   *)
(* that one, in the same order, with the new frame last.                   *)
(***************************************************************************)
\* The write has returned and its record is still there.
WriteReturned == wpc = "idle" /\ wcall.res # "none"

\* Sequence q without its first n elements.
DropFirst(q, n) == SubSeq(q, n + 1, Len(q))

C10_WriteNeverRaisesDropsOldest ==
    /\ wcall.res # "raised"
    /\ wpc # "idle" => ENABLED (WriteDrop \/ WritePut)
    /\ WriteReturned =>
          LET b == wcall.before
              f == wcall.frame
          IN  /\ wcall.res \in {"not_capturing", "invalid", "enqueued",
                                "replaced", "dropped"}
              /\ wcall.res \in {"not_capturing", "invalid"} => audio_queue = b
              /\ wcall.res = "dropped" =>
                    \A i \in 1..Len(audio_queue) : audio_queue[i] # f
              /\ (wcall.res = "enqueued" /\ Len(b) < AUDIO_QUEUE_MAXSIZE) =>
                    audio_queue = Append(b, f)
              /\ (wcall.res = "enqueued" /\ Len(b) >= AUDIO_QUEUE_MAXSIZE) =>
                    (wcall.empty_seen /\ wcall.pops = Len(b) /\ audio_queue = <<f>>)
              /\ wcall.res = "replaced" =>
                    /\ Len(b) = AUDIO_QUEUE_MAXSIZE
                    /\ audio_queue = Append(DropFirst(b, wcall.pops + 1), f)
              /\ (wcall.capturing /\ ~InvalidPcm(wcall.pcm)) =>
                    wcall.res \in {"enqueued", "replaced"}

C10_Witness ==
    /\ WriteReturned
    /\ wcall.res = "replaced"
    /\ wcall.pops = 0
    /\ Len(wcall.before) = AUDIO_QUEUE_MAXSIZE
    /\ audio_queue = Append(Tail(wcall.before), wcall.frame)
    /\ Len(audio_queue) = AUDIO_QUEUE_MAXSIZE

(***************************************************************************)
(* C11: a stop_transcribe that ends a running loop performs its steps in   *)
(* this order: frame admission stops (stop_capturing), the loop task is    *)
(* cancelled and awaited, the retained buffer is flushed (flush_buffer),   *)
(* the session is released (stop_session), and the stop returns.  (The     *)
(* finally block of the loop calls stop_session before flush_buffer.)      *)
(***************************************************************************)
\* The names of the events of q, in order.
EventNames(q) == [k \in 1..Len(q) |-> q[k].ev]

\* The events from the stop_capturing of stop_transcribe on.
RECURSIVE Teardown(_)
Teardown(q) ==
    IF q = <<>> THEN <<>>
    ELSE IF Head(q).ev = "stop_capturing" THEN q
    ELSE Teardown(Tail(q))

\* A stop_transcribe has returned after taking the loop through its finally.
StoppedRunningLoop ==
    /\ slog # <<>>
    /\ slog[Len(slog)].ev = "stopped"
    /\ Len(Teardown(slog)) > 3

C11_StopOrder ==
    StoppedRunningLoop =>
        EventNames(Teardown(slog)) =
            <<"stop_capturing", "cancel", "flush_buffer", "stop_session", "stopped">>

(***************************************************************************)
(* C12: when a session stops with a non-empty remainder in audio_buffer,   *)
(* the remainder is submitted for transcription before the buffer is       *)
(* cleared: stop_session never empties a buffer that still holds audio.    *)
(* (It does: stop_session runs first and clears the buffer, and            *)
(* flush_buffer, which follows, finds nothing and no active session.)      *)
(***************************************************************************)
C12_RemainderSubmitted ==
    \A k \in 1..Len(slog) : slog[k].ev = "stop_session" => slog[k].n = 0

(***************************************************************************)
(* C13: two model loads never overlap and the model is constructed at most *)
(* once.  (A start_session cancelled while its load runs releases the      *)
(* lock and leaves the executor thread constructing; the next start finds  *)
(* no model and starts a second load.)                                     *)
(***************************************************************************)
Constructing == {i \in 1..Len(loaders) : loaders[i].st = "constructing"}

C13_LoadsNeverOverlap ==
    /\ Cardinality(Constructing) <= 1
    /\ nloaded <= 1

(***************************************************************************)
(* C14: after the model failed to load at session start the session is     *)
(* aborted: the service is not transcribing, and the guild is marked       *)
(* neither transcribing nor capturing.  (The loop task returns, and        *)
(* nothing clears the flags start_transcribe has set.)                     *)
(***************************************************************************)
C14_LoadFailureAbortsSession ==
    lpc = "ended_load_failed" =>
        (~is_transcribing /\ ~transcribing /\ ~is_capturing)

(***************************************************************************)
(* C15: the loop stops itself exactly when 5 exceptions have occurred      *)
(* since the last processed frame: a loop ended by the breaker has seen 5, *)
(* a loop still running has seen fewer, whatever frames were skipped in    *)
(* between.                                                                *)
(***************************************************************************)
\* The exceptions among the outcomes q.
Excs(q) == Len(SelectSeq(q, LAMBDA o : o \in {"exc", "iter_exc"}))

C15_BreakerAtFive ==
    /\ lpc = "ended_breaker" => Excs(since_ok) = MAX_ERRORS
    /\ lpc = "loop" => Excs(since_ok) < MAX_ERRORS
    /\ Excs(since_ok) <= MAX_ERRORS

C15_Witness ==
    /\ lpc = "ended_breaker"
    /\ since_ok = <<"exc", "odd", "iter_exc", "exc", "exc", "exc">>
    /\ niters = 7
    /\ ~is_transcribing

\* A detect_block call has returned; a replace_blocks_around_player call has.
DetectDone == pc = "done" /\ call.kind = "detect"

RadiusDone == pc = "done" /\ call.kind = "radius"

\* The phrase stands in the text between blanks or the ends of the text.
Delimited(phrase, text) ==
    \E s \in 0..(Len(text) - Len(phrase)) :
        /\ SubSeq(text, s + 1, s + Len(phrase)) = phrase
        /\ s = 0 \/ text[s] = " "
        /\ s + Len(phrase) = Len(text) \/ text[s + Len(phrase) + 1] = " "

NormalizedTextOf == [t \in DetectTranscripts |-> NormalizeText(t)]

\* The vocabulary entries whose phrase stands delimited in the normalized
\* transcript, by position in the vocabulary.
MatchesOf ==
    [t \in DetectTranscripts |->
        {k \in 1..Len(BlockWords) :
            Delimited(NormalizeText(BlockWords[k].word), NormalizedTextOf[t])}]

FirstMatchOf == [t \in DetectTranscripts |-> FirstMatch(NormalizedTextOf[t])]

(***************************************************************************)
(* C16: detect_block returns the entry whose phrase is the longest of the  *)
(* phrases standing as whole words in the normalized text, the earliest in *)
(* vocabulary order among those of that length, and nothing when no phrase *)
(* stands there.                                                           *)
(***************************************************************************)
C16_LongestMatchWins ==
    DetectDone =>
        LET M == MatchesOf[call.text]
        IN  /\ call.detected <=> M # {}
            /\ call.detected =>
                  \E k \in M :
                      /\ BlockWords[k].word = call.matched_word
                      /\ \A j \in M :
                            \/ Len(BlockWords[j].word) < Len(BlockWords[k].word)
                            \/ /\ Len(BlockWords[j].word) = Len(BlockWords[k].word)
                               /\ k <= j

C16_Witness ==
    /\ DetectDone
    /\ call.text = R_mud_ore
    /\ Cardinality(MatchesOf[call.text]) = 2
    /\ call.matched_word = W_ore

(***************************************************************************)
(* C17: a phrase is matched only where it stands in the normalized         *)
(* transcript between word boundaries; "sandstone" matches neither sand    *)
(* nor stone.                                                              *)
(***************************************************************************)
C17_WholeWordOnly ==
    DetectDone =>
        /\ call.detected =>
              Delimited(NormalizeText(call.matched_word), NormalizedTextOf[call.text])
        /\ call.text = T_sandstone => ~call.detected

C17_Witness ==
    /\ DetectDone
    /\ call.text = T_sandstone
    /\ IsSubstring(W_sand, NormalizedTextOf[call.text])
    /\ IsSubstring(W_stone, NormalizedTextOf[call.text])
    /\ ~call.detected

(***************************************************************************)
(* C18: the radius reported for a detected transcript is min(N, MAX_RADIUS)*)
(* for the number N captured by the first pattern that matches, and the    *)
(* default radius only when no pattern matches.  (A captured 0 is reported *)
(* as the default.)                                                        *)
(***************************************************************************)
C18_RadiusFromFirstPattern ==
    (DetectDone /\ call.detected) =>
        LET m == FirstMatchOf[call.text]
        IN  call.radius = IF m.matched
                          THEN Min(ParseInt(m.group), MAX_RADIUS)
                          ELSE DEFAULT_RADIUS

MaxSafeRadius ==
    CHOOSE q \in 0..64 :
        /\ (2 * q + 1) ^ 2 * (q + 2) <= FILL_LIMIT_BLOCKS
        /\ (2 * q + 3) ^ 2 * (q + 3) > FILL_LIMIT_BLOCKS

C20_RadiusWithinRange ==
    /\ (DetectDone /\ call.detected) => call.radius \in 0..MAX_RADIUS
    /\ RadiusDone => call.command.hi \in 0..call.max_radius

(***************************************************************************)
(* C21: get_online_players sends `list` and returns the pieces of the text *)
(* after the last colon of the answer, cut at the commas and trimmed; a    *)
(* failed command, an answer without a colon and an empty text after the   *)
(* colon give no players, and with no players the fan-out returns an empty *)
(* map and sends no fill.                                                  *)
(***************************************************************************)
\* The sends of `list` of the running call.
ListSends == SelectSeq(rlog, LAMBDA e : IsSend(e) /\ e.cmd.verb = "list")

\* The answer get_online_players got: that of the last send of `list`.
ListAnswered == ListSends # <<>> /\ ListSends[Len(ListSends)].ok

ListAnswer == ListSends[Len(ListSends)].text

\* The text after the last colon of t.
AfterLastColon(t) ==
    LET last == CHOOSE i \in 1..Len(t) :
                    t[i] = ":" /\ \A j \in (i + 1)..Len(t) : t[j] # ":"
    IN  SubSeq(t, last + 1, Len(t))

\* t without the blanks at its ends.
Trimmed(t) ==
    LET inked == {i \in 1..Len(t) : t[i] # " "}
    IN  IF inked = {} THEN <<>>
        ELSE SubSeq(t, CHOOSE a \in inked : \A i \in inked : a <= i,
                       CHOOSE b \in inked : \A i \in inked : i <= b)

\* The k-th of the pieces the commas cut t into.
PieceOf(t, k) ==
    LET commas == {i \in 1..Len(t) : t[i] = ","}
        cut(n) == IF n = 0 THEN 0
                  ELSE IF n > Cardinality(commas) THEN Len(t) + 1
                  ELSE CHOOSE i \in commas :
                          Cardinality({j \in commas : j < i}) = n - 1
    IN  SubSeq(t, cut(k - 1) + 1, cut(k) - 1)

\* What the claim says get_online_players returns.
ExpectedPlayers ==
    IF ~ListAnswered THEN <<>>
    ELSE IF ~(\E i \in 1..Len(ListAnswer) : ListAnswer[i] = ":") THEN <<>>
    ELSE LET rest == Trimmed(AfterLastColon(ListAnswer))
             n == Cardinality({i \in 1..Len(rest) : rest[i] = ","}) + 1
         IN  IF rest = <<>> THEN <<>>
             ELSE [k \in 1..n |-> Trimmed(PieceOf(rest, k))]

SayDone == pc = "done" /\ call.kind = "say"

\* Where the quoted argument that is read from position i of t ends: at the
\* first double quote that no backslash escapes; 0 when there is none.
RECURSIVE ClosingQuote(_, _, _)
ClosingQuote(t, i, escaped) ==
    IF i > Len(t) THEN 0
    ELSE IF escaped THEN ClosingQuote(t, i + 1, FALSE)
    ELSE IF t[i] = "\\" THEN ClosingQuote(t, i + 1, TRUE)
    ELSE IF t[i] = "\"" THEN i
    ELSE ClosingQuote(t, i + 1, FALSE)

\* The characters an escaped text stands for.
RECURSIVE Unescaped(_)
Unescaped(t) ==
    IF t = <<>> THEN <<>>
    ELSE IF Head(t) = "\\" /\ Len(t) >= 2 THEN <<t[2]>> \o Unescaped(Tail(Tail(t)))
    ELSE <<Head(t)>> \o Unescaped(Tail(t))

C22_SayArgumentIntact ==
    SayDone =>
        LET t == call.command.text
            end == ClosingQuote(t, 6, FALSE)
        IN  /\ end = Len(t)
            /\ Unescaped(SubSeq(t, 6, end - 1)) = call.text

(***************************************************************************)
(* C23: cooldown is applied once, at the boundary of a logical operation:  *)
(* a fan-out requested within the cooldown window of the previous remote   *)
(* call is rejected as a whole, and in a fan-out that runs no constituent  *)
(* call (the `list`, a fill) is rejected by cooldown: each one that fails  *)
(* has a failed connect or a raising send behind it.  (No fan-out checks   *)
(* the cooldown.)                                                          *)
(***************************************************************************)
OperationDone == pc = "done" /\ call.kind = "chunk_all"

\* The operation was requested within the window of the last remote call.
OperationWithinCooldown ==
    /\ call.last_before # NoTime
    /\ call.at - call.last_before < COOLDOWN_SECONDS

\* Every constituent call that failed did so at the connection.
ConstituentsBypassCooldown ==
    /\ ~ListAnswered => \E k \in 1..Len(rlog) : ~rlog[k].ok
    /\ \A p \in DOMAIN call.results :
          ~call.results[p] =>
              \E k \in 1..Len(rlog) : IsFillFor(rlog[k], p) /\ ~rlog[k].ok

C23_CooldownAtOperationBoundary ==
    OperationDone =>
        IF OperationWithinCooldown
        THEN rlog = <<>> /\ call.results = EmptyMap
        ELSE ConstituentsBypassCooldown

\* The half of C23 that holds.
C23_ConstituentsNeverRejected == OperationDone => ConstituentsBypassCooldown

(***************************************************************************)
(* C24: the connection flag is False at first, becomes True only through a *)
(* connect that succeeds, and is False whenever execute_command has        *)
(* returned None because a send raised, on the first send or on the retry. *)
(* (After a retry that raised the flag is still True.)                     *)
(***************************************************************************)
\* execute_command has returned None, and the last thing it did was a send
\* that raised.
NoneAfterRaisingSend ==
    /\ pc = "done"
    /\ call.kind = "execute"
    /\ call.response = NoneResp
    /\ rlog # <<>>
    /\ IsSend(rlog[Len(rlog)])
    /\ ~rlog[Len(rlog)].ok

C24_RaisingSendDisconnects ==
    /\ pc = "idle" => ~connected
    /\ (pc = "done" /\ connected /\ ~call.was_connected) =>
          \E k \in 1..Len(rlog) : IsConnect(rlog[k]) /\ rlog[k].ok
    /\ NoneAfterRaisingSend => ~connected

FillSends == SelectSeq(rlog, LAMBDA e : IsSend(e) /\ e.cmd.verb = "fill")

\* The place of player p in the list the call works on.
PlayerIndex(p) == CHOOSE k \in 1..Len(call.players) : call.players[k] = p

\* Fill a is not issued after fill b in the order player by player, slab by
\* slab.
InFanOutOrder(a, b) ==
    \/ PlayerIndex(a.cmd.as) < PlayerIndex(b.cmd.as)
    \/ /\ a.cmd.as = b.cmd.as
       /\ a.cmd.y1 <= b.cmd.y1

RegionCommand(player, lo, hi, placed, replaced) ==
    [verb |-> "fill", as |-> player,
     x1 |-> -8, y1 |-> lo, z1 |-> -8,
     x2 |-> 8,  y2 |-> hi, z2 |-> 8,
     yrel |-> FALSE,
     block |-> placed, mode |-> "replace", filter |-> replaced]

\* The absolute bounds of the slabs of the span lo..hi: 113 high, the most
\* that 17 x 17 columns leave of the 32768 blocks of one fill, the last one
\* ending at hi.
IsSlabOf(a, b, lo, hi) ==
    /\ a \in lo..hi
    /\ (a - lo) % 113 = 0
    /\ b = (IF a + 112 > hi THEN hi ELSE a + 112)

AcceptedFrames == {accepted[k][1].f : k \in 1..Len(accepted)}

(***************************************************************************)
(* C27: a frame with an empty payload or an odd byte length never reaches  *)
(* the accumulator.  A write of an empty payload leaves the queue as it    *)
(* was, and no queued frame is empty; a pass of the loop that gets a frame *)
(* of odd length leaves the buffer and the consecutive-error counter as    *)
(* they were; every frame the buffer was given has an even, positive       *)
(* length; and the buffer always has an even length.                       *)
(***************************************************************************)
C27_MalformedFramesDropped ==
    /\ wcall.res = "invalid" =>
          /\ audio_queue = wcall.before
          /\ wcall.frame \notin DOMAIN pcm_of
    /\ \A k \in 1..Len(audio_queue) :
          pcm_of[audio_queue[k]] \notin {"none", "empty"}
    /\ last_iter.pcm = "odd" =>
          /\ last_iter.outcome = "odd"
          /\ last_iter.frame \notin AcceptedFrames
          /\ audio_buffer = last_iter.buffer_before
          /\ consecutive_errors = last_iter.errs_before
    /\ \A k \in 1..Len(accepted) :
          /\ BytesLen(accepted[k]) > 0
          /\ BytesLen(accepted[k]) % 2 = 0
    /\ BytesLen(buffer) = audio_buffer
    /\ audio_buffer % 2 = 0

C27_Witness ==
    /\ wcall.res = "invalid"
    /\ wcall.pcm = "empty"
    /\ last_iter.pcm = "odd"
    /\ audio_buffer > 0

\* The runs of a string of bytes, runs that continue one another made one.
RECURSIVE Merged(_)
Merged(b) ==
    IF Len(b) < 2 THEN b
    ELSE IF b[1].f = b[2].f /\ b[1].hi + 1 = b[2].lo
    THEN Merged(<<[f |-> b[1].f, lo |-> b[1].lo, hi |-> b[2].hi]>> \o SubSeq(b, 3, Len(b)))
    ELSE <<b[1]>> \o Merged(Tail(b))

\* The strings of a sequence, one after the other.
RECURSIVE Flat(_)
Flat(ss) == IF ss = <<>> THEN <<>> ELSE Head(ss) \o Flat(Tail(ss))

(***************************************************************************)
(* C28: while a session is active, the chunks emitted so far, in emission  *)
(* order, followed by the retained buffer are the accepted frames in       *)
(* arrival order, byte for byte, and every emitted chunk has exactly the   *)
(* threshold length of 48000 * 3 * 2 bytes.                                *)
(***************************************************************************)
C28_NoByteLostOrReordered ==
    is_transcribing =>
        /\ Merged(Flat(emitted) \o buffer) = Merged(Flat(accepted))
        /\ \A k \in 1..Len(emitted) : BytesLen(emitted[k]) = 288000

C28_Witness ==
    /\ is_transcribing
    /\ Len(emitted) = 2
    /\ Len(emitted[1]) = 2
    /\ Len(emitted[2]) = 2
    /\ emitted[2][1].f = emitted[1][2].f
    /\ buffer # <<>>
    /\ BytesLen(buffer) < 288000

(***************************************************************************)
(* C29: the ingestion loop never waits for a dispatched transcription:     *)
(* whenever the loop task is at its while condition with the condition     *)
(* true, a pass of the body can be taken, whatever transcriptions are      *)
(* pending.  The witness is a state in which a frame was processed while a *)
(* transcription was pending, and the transcript of the second chunk was   *)
(* delivered before that of the first.                                     *)
(***************************************************************************)
C29_LoopNeverWaits ==
    (lpc = "loop" /\ ~cancel_req /\ transcribing /\ is_capturing /\ Ready) =>
        ENABLED PumpAny

C29_Witness ==
    /\ last_iter.outcome = "ok"
    /\ last_iter.pending >= 1
    /\ Len(tlog) = 2
    /\ tlog[1].n = 2 /\ tlog[1].called
    /\ tlog[2].n = 1 /\ tlog[2].called

\* Some segment has a character that is not a blank.
SomeSpeech(segments) ==
    \E j \in 1..Len(segments) :
        \E c \in 1..Len(segments[j]) : segments[j][c] \notin {" ", "\t", "\n"}

\* A _transcribe_chunk task returns in this step.
TaskReturns == Len(tlog') = Len(tlog) + 1

(***************************************************************************)
(* C30: a transcription without segments or with blank text only is a      *)
(* normal outcome.  The task that returns calls the transcript callback    *)
(* exactly when the transcription did not raise and some segment has text; *)
(* when it does not call it, the loop's consecutive-error counter and the  *)
(* RCON client are left as they were; when it does, the callback gets the  *)
(* joined text.                                                            *)
(***************************************************************************)
C30_EmptyResultIsNormal ==
    [][TaskReturns =>
          LET e == tlog'[Len(tlog')]
          IN  /\ e.called <=> (~e.raises /\ SomeSpeech(e.segments))
              /\ consecutive_errors' = consecutive_errors
              /\ lpc' = lpc
              /\ ~e.called => UNCHANGED rconVars
              /\ e.called => (call'.kind = "transcript" /\ call'.text = e.text
                              /\ e.text # <<>>)]_vars

C30_Witness ==
    /\ Len(tlog) = 2
    /\ ~tlog[1].raises /\ tlog[1].segments # <<>> /\ ~tlog[1].called
    /\ tlog[2].called
    /\ consecutive_errors > 0
    /\ pc = "done" /\ call.kind = "transcript"
    /\ \E k \in 1..Len(rlog) : IsSend(rlog[k]) /\ rlog[k].cmd.verb = "list"

(***************************************************************************)
(* C31: connect() never raises: when it fails it returns False and the     *)
(* client is Disconnected.  execute_command on a Disconnected client       *)
(* connects first, and when that connect fails it returns None with        *)
(* nothing sent, the client still Disconnected.                            *)
(***************************************************************************)
C31_FailedConnectSendsNothing ==
    /\ ~call.exc
    /\ (pc = "done" /\ call.kind = "connect") =>
          /\ Len(rlog) = 1
          /\ IsConnect(rlog[1])
          /\ connected <=> rlog[1].ok
    /\ (pc = "done" /\ call.kind = "execute" /\ ~call.was_connected) =>
          /\ rlog # <<>>
          /\ IsConnect(rlog[1])
          /\ ~rlog[1].ok =>
                /\ call.response = NoneResp
                /\ Len(rlog) = 1
                /\ ~connected

C31_Witness ==
    /\ pc = "done"
    /\ call.kind = "execute"
    /\ ~call.was_connected
    /\ rlog = <<ConnectEv(ListCommand, FALSE)>>
    /\ call.response = NoneResp
    /\ ~connected

\* The running execute_command call ended in a send that the server answered.
EndedInSend ==
    /\ pc = "done"
    /\ call.kind = "execute"
    /\ rlog # <<>>
    /\ IsSend(rlog[Len(rlog)])
    /\ rlog[Len(rlog)].ok

\* A result of execute_command that is a rejection: None, nothing sent, the
\* cooldown map as it was.
Rejected(r) ==
    /\ r.response = NoneResp
    /\ r.lct = last_command_time
    /\ \A k \in 1..Len(r.events) : ~IsSend(r.events[k])

(***************************************************************************)
(* C32: a cooldown bypass skips only the check.  Every execute_command     *)
(* that ends in an answered send, bypassed or not, records the time of the *)
(* call under its key (the global key when no user id is given); and while *)
(* less than the cooldown has passed since a bypassed call that was        *)
(* answered, a request of the same key that does not bypass, such as say,  *)
(* is rejected with nothing sent.                                          *)
(***************************************************************************)
C32_BypassKeepsBookkeeping ==
    /\ EndedInSend => last_command_time[CooldownKey(call.user_id)] = call.at
    /\ (EndedInSend /\ call.bypass /\ now - call.at < COOLDOWN_SECONDS) =>
          \A r \in ExecuteCommand(SayCommand(<<"a">>), call.user_id, FALSE) :
              Rejected(r)

C32_Witness ==
    /\ EndedInSend
    /\ call.bypass
    /\ call.user_id = NoUser
    /\ call.last_before # NoTime
    /\ call.at - call.last_before < COOLDOWN_SECONDS
    /\ now > call.at
    /\ now - call.at < COOLDOWN_SECONDS
    /\ connected

\* This step is a call of execute_command.
ExecuteStep == pc' = "done" /\ call'.kind = "execute" /\ now' = now

\* The call of this step ended in a send that the server answered.
StepSent ==
    /\ rlog' # <<>>
    /\ IsSend(rlog'[Len(rlog')])
    /\ rlog'[Len(rlog')].ok

(***************************************************************************)
(* C33: an execute_command call that does not end in an answered send      *)
(* (rejected by the cooldown, initial connect failed, send and retry both  *)
(* failed) leaves the cooldown map unchanged; a call that does writes the  *)
(* current time under the key of the calling request and no other key.     *)
(***************************************************************************)
C33_OnlySuccessWritesCooldown ==
    [][ExecuteStep =>
          /\ ~StepSent => last_command_time' = last_command_time
          /\ StepSent => last_command_time'[CooldownKey(call'.user_id)] = now
          /\ \A k \in Keys \ {CooldownKey(call'.user_id)} :
                last_command_time'[k] = last_command_time[k]]_vars

C33_Witness ==
    /\ pc = "done"
    /\ call.kind = "execute"
    /\ call.user_id # NoUser
    /\ call.response = NoneResp
    /\ Len(rlog) = 3
    /\ IsSend(rlog[1]) /\ ~rlog[1].ok
    /\ IsSend(rlog[3]) /\ ~rlog[3].ok
    /\ call.last_before # NoTime
    /\ call.at > call.last_before
    /\ last_command_time[CooldownKey(call.user_id)] = call.last_before
    /\ last_command_time[CooldownKey(NoUser)] # NoTime
    /\ last_command_time[CooldownKey(NoUser)] # call.last_before

\* The loop task of the guild exists and has not finished.
LoopAlive == lpc \in {"created", "loading", "loop"}

(***************************************************************************)
(* C34: whenever the guild is marked transcribing and the capture flag is  *)
(* set, its processing loop is running or about to run; a loop that ends   *)
(* on its own (breaker, failed model load) clears the flags.               *)
(***************************************************************************)
C34_MarkedSessionHasLoop == (transcribing /\ is_capturing) => LoopAlive

\* Loop task t is suspended in the loop body with its while condition true.
LoopRunning(t) ==
    /\ loop_tasks[t].pc = "suspended"
    /\ ~loop_tasks[t].cancel
    /\ LoopCondition(t)

\* Loop task t is the only loop task its guild has had.
OnlyLoopOfItsGuild(t) ==
    \A t2 \in 1..Len(loop_tasks) : loop_tasks[t2].guild = loop_tasks[t].guild => t2 = t

\* The guilds whose bytes are in chunk c.
GuildsIn(c) == {c[k].f.guild : k \in 1..Len(c)}

\* A running loop is served by the transcription service, whatever the loops
\* of other guilds have done.
NoGuildStopsAnother ==
    \A t \in 1..Len(loop_tasks) :
        (LoopRunning(t) /\ OnlyLoopOfItsGuild(t)) => is_transcribing

\* No chunk holds bytes of two guilds.
NoChunkOfTwoGuilds == \A n \in 1..Len(emitted) : Cardinality(GuildsIn(emitted[n])) <= 1

(***************************************************************************)
(* C35: the sessions of different guilds are isolated: while a guild's     *)
(* loop is running, the start, stop or end of another guild's loop does    *)
(* not stop its transcription, and no chunk given to transcription holds   *)
(* audio bytes of two guilds.                                              *)
(***************************************************************************)
C35_GuildsIsolated == NoGuildStopsAnother /\ NoChunkOfTwoGuilds

(***************************************************************************)
(* C36: at any time a guild has at most one processing loop task that has  *)
(* not finished, whatever /join, /leave, /start_transcribe and             *)
(* /stop_transcribe commands have been taken.                              *)
(***************************************************************************)
C36_OneLoopPerGuild == \A g \in Guilds : Cardinality(LoopsOf(g)) <= 1

(***************************************************************************)
(* C37: no transcript is handed to the transcript callback for a session   *)
(* whose /stop_transcribe has returned: the _transcribe_chunk tasks the    *)
(* session's loop created have ended, or are ended, by the teardown.       *)
(***************************************************************************)
C37_NoTranscriptAfterStop ==
    \A k \in 1..Len(tlog) : tlog[k].called => ~tlog[k].after_stop

\* The users whose bytes are in chunk c.
UsersIn(c) == {c[k].f.user_id : k \in 1..Len(c)}

(***************************************************************************)
(* C38: a chunk given to transcription holds audio bytes of one speaker    *)
(* only, the user whose id the _transcribe_chunk task carries and hands to *)
(* the callback with the transcript.                                       *)
(***************************************************************************)
C38_ChunkOfOneSpeaker ==
    /\ \A i \in 1..Len(tasks) : UsersIn(emitted[tasks[i].n]) \subseteq {tasks[i].user_id}
    /\ \A k \in 1..Len(tlog) : UsersIn(emitted[tlog[k].n]) \subseteq {tlog[k].user_id}

====
